---- MODULE Spec2Model ----
(***************************************************************************)
(* WorkTrack Portal: the client-side synchronisation and notification      *)
(* layer of src/src/App.tsx (function App), with the row-level policies of *)
(* src/supabase/schema.sql deciding what the queries return.               *)
(*                                                                         *)
(* The browser runs one event loop: every handler below is one atomic      *)
(* step.  An awaited query is two steps apart from its continuation: the   *)
(* server evaluates it (a snapshot) and the response is handled later, in  *)
(* any order with respect to other responses and to push events.           *)
(***************************************************************************)
EXTENDS Integers, Sequences, FiniteSets, TLC

\* JS undefined / null, SQL NULL
None == "none"

(***************************************************************************)
(* Bounds of the model                                                     *)
(***************************************************************************)
\* updates of orders made on the server while the session is active
MaxChanges == 1
\* push events waiting on one realtime channel
MaxPush == 1
\* syncEvents calls in flight at once (the 5 s timer does not wait)
MaxSync == 1
\* loadOrders calls in flight at once
MaxLoads == 2
\* comments and files inserted on the server while the session is active
MaxRows == 2
\* pushNotification calls followed from an empty inbox, and beyond a full one
MaxOverflow == 2
\* inbox entries opened one by one (read without markAllNotificationsRead)
MaxOpens == 2
\* openNotification calls waiting for their query at once
MaxFetches == 2
\* sessions established in a run (sign-in after sign-out)
MaxSessions == 2
\* requests that come back with an error, and sign-out calls that fail, in a run
MaxFailures == 1
\* handlePostComment calls in flight at once
MaxPosts == 1

(***************************************************************************)
(* Program constants                                                       *)
(***************************************************************************)
\* pushNotification: .slice(0, 50)
InboxCap == 50
\* seedStatusMap / syncEvents: orders .limit(300)
OrdersLimit == 300
\* syncEvents: comments and order_files .limit(100)
EventsLimit == 100

\* types.ts Order['status']: two of the five values (any value may follow any other)
Statuses == {"not_started", "in_progress"}

STATUS_LABELS ==
  [s \in {"not_started", "in_progress", "on_hold", "completed", "cancelled"} |->
     CASE s = "not_started" -> "Not Started"
       [] s = "in_progress" -> "In Progress"
       [] s = "on_hold"     -> "On Hold"
       [] s = "completed"   -> "Completed"
       [] s = "cancelled"   -> "Cancelled"]

\* rows of public.profiles
Users == {"c1", "c2", "s1", "a1"}

\* the role column as the profiles were set up: two clients, one staff member, one admin
InitialRoles ==
  [u \in Users |-> IF u \in {"c1", "c2"} THEN "client" ELSE IF u = "s1" THEN "staff" ELSE "admin"]

\* full_name is '' for a profile created by handle_new_user without metadata
FullNameOf(u) == IF u = "c1" THEN "Cara" ELSE IF u = "s1" THEN "Sam" ELSE ""

\* the identities a session is opened for
Viewers == {"c1", "c2", "s1"}

\* rows of public.orders: id, order_code, client_id (status varies)
Orders == {"o1", "o2"}

\* the orders whose status is updated while the session is active
Updated == {"o1"}

\* STATUS_LABELS[status]: undefined for a key the record lacks
StatusLabel(status) ==
  IF status \in DOMAIN STATUS_LABELS THEN STATUS_LABELS[status] ELSE "undefined"

OrderClient(o) == IF o = "o1" THEN "c1" ELSE "c2"

OrderCodeOf(o) == "ORD-" \o o

Min(a, b) == IF a < b THEN a ELSE b

Take(s, n) == SubSeq(s, 1, Min(n, Len(s)))

Remove(s, i) == SubSeq(s, 1, i - 1) \o SubSeq(s, i + 1, Len(s))

Range(s) == {s[i] : i \in 1..Len(s)}

VARIABLES
  profile,            \* useState profile: the viewer's profile row
  srvOrders,          \* public.orders, most recently updated first
  srvComments,        \* public.comments, in insertion order
  srvFiles,           \* public.order_files, in insertion order
  orders,             \* useState orders (ordersRef.current follows it)
  profilesById,       \* profilesByIdRef.current: ids of the loaded profiles
  orderStatusMap,     \* orderStatusMapRef.current
  knownCommentIds,    \* knownCommentIdsRef.current
  knownFileIds,       \* knownFileIdsRef.current
  lastCommentSeenAt,  \* lastCommentSeenAtRef.current
  lastFileSeenAt,     \* lastFileSeenAtRef.current
  notifications,      \* useState notifications, newest first
  notifSeq,           \* number of notifications created so far in the session (their ids)
  ordersChannel,      \* push events not yet handled, orders table
  commentsChannel,    \* push events not yet handled, comments table
  filesChannel,       \* push events not yet handled, order_files table
  syncQ,              \* syncEvents calls in flight
  loadQ,              \* loadOrders calls in flight
  seedReq,            \* the seedStatusMap call
  replicaFull,        \* whether update events carry the old row's columns
  srvRoles,           \* public.profiles: the role column, per profile id
  statusLog,          \* history: the statuses each order has held on the server, oldest first
  updates,            \* history: updates of orders made on the server
  changes,            \* history: of those, the ones that changed the status, per order
  selfChanges,        \* history: of those, the ones the viewer made
  owed,               \* history: orders changed while the map held a status
  feedLog,            \* history, per comment / file id: times it passed the dedup gate,
                      \* pushNotification calls for it, the paths that delivered it
  selectedOrderId,    \* useState selectedOrderId
  fetchQ,             \* openNotification calls waiting for their single-order query
  fetched,            \* history: single-order queries issued by openNotification, per order
  sessions,           \* history: sessions established so far
  toasts,             \* useState toasts: the transient messages shown, oldest first
  timer,              \* whether the interval timer of the sync effect is set
  comments,           \* useState comments: the comments of the detail view
  files,              \* useState files: the files of the detail view
  detailQ,            \* loadOrderDetails calls in flight, with the answer of their queries
  commentText,        \* useState commentText: the draft of a comment
  commentInternal,    \* useState commentInternal
  commentFile,        \* useState commentFile: the attachment picked, if any
  commentFileCategory,\* useState commentFileCategory
  postQ               \* handlePostComment calls in flight, each before its next await

server == <<srvOrders, srvComments, srvFiles, replicaFull, srvRoles, statusLog>>
refs == <<orderStatusMap, knownCommentIds, knownFileIds, lastCommentSeenAt, lastFileSeenAt>>
inbox == <<notifications, notifSeq>>
channels == <<ordersChannel, commentsChannel, filesChannel>>
requests == <<syncQ, loadQ, seedReq>>
history == <<updates, changes, selfChanges, owed, feedLog>>
details == <<comments, files>>
draft == <<commentText, commentInternal, commentFile, commentFileCategory>>
view == <<details, draft, postQ>>
nav == <<selectedOrderId, fetchQ, fetched, sessions, toasts, timer, view>>

vars == <<profile, server, orders, profilesById, refs, inbox, channels, requests, history, nav,
          detailQ>>

\* select role from public.profiles p where p.id = u; no row without a session
RoleOf(u) == IF u \in DOMAIN srvRoles THEN srvRoles[u] ELSE None

\* loadProfile: the viewer's row of public.profiles
ProfileRow(u) ==
  [id |-> u, email |-> u \o "@mail", full_name |-> FullNameOf(u), role |-> RoleOf(u)]

\* no order is open: the detail view is empty, nothing was typed, nothing is in flight
NothingOpen ==
  /\ comments = <<>>
  /\ files = <<>>
  /\ detailQ = {}
  /\ commentText = ""
  /\ commentInternal = FALSE
  /\ commentFile = None
  /\ commentFileCategory = "document"
  /\ postQ = <<>>

(***************************************************************************)
(* Row-level security and queries                                          *)
(***************************************************************************)
IsStaffTier(role) == role \in {"admin", "staff"}

\* policy orders_select_by_role
orders_select_by_role(uid, row) == IsStaffTier(RoleOf(uid)) \/ row.client_id = uid

\* policy orders_update_admin_staff
orders_update_admin_staff(uid) == IsStaffTier(RoleOf(uid))

\* policy comments_select_by_role
comments_select_by_role(uid, row) ==
  IsStaffTier(RoleOf(uid)) \/ (~row.is_internal /\ OrderClient(row.order_id) = uid)

\* policy comments_insert_by_role
comments_insert_by_role(uid, row) ==
  \/ IsStaffTier(RoleOf(uid))
  \/ (row.author_id = uid /\ ~row.is_internal /\ OrderClient(row.order_id) = uid)

\* policy order_files_select_by_role
order_files_select_by_role(uid, row) ==
  IsStaffTier(RoleOf(uid)) \/ OrderClient(row.order_id) = uid

\* policy order_files_insert_admin_staff
order_files_insert_admin_staff(uid, row) ==
  IsStaffTier(RoleOf(uid)) \/ (row.uploaded_by = uid /\ OrderClient(row.order_id) = uid)

\* policy storage_order_files_insert; the first segment of the object's name is the order
storage_order_files_insert(uid, orderId) ==
  IsStaffTier(RoleOf(uid)) \/ OrderClient(orderId) = uid

SelectOrders(uid, rows) ==
  LET Visible(r) == orders_select_by_role(uid, r) IN SelectSeq(rows, Visible)

\* loadOrders' query: select * order by updated_at desc, .eq(client_id) for a client
LoadOrdersQuery(p, rows) ==
  LET Mine(r) == p.role = "client" => r.client_id = p.id
  IN  SelectSeq(SelectOrders(p.id, rows), Mine)

\* seedStatusMap's and syncEvents' query: order by updated_at desc limit 300
SyncOrdersQuery(p, rows) == Take(SelectOrders(p.id, rows), OrdersLimit)

OrderRow(o, status) ==
  [id |-> o, status |-> status, client_id |-> OrderClient(o), order_code |-> OrderCodeOf(o)]

\* the status column of the row of order o
StatusIn(rows, o) ==
  LET i == CHOOSE j \in 1..Len(rows) : rows[j].id = o IN rows[i].status

ServerStatusOf(o) ==
  LET i == CHOOSE j \in 1..Len(srvOrders) : srvOrders[j].id = o IN srvOrders[i].status

\* the status an update writes is added to the statuses the order has held, unless the
\* update leaves the status as it is
LoggedStatus(log, o, status) ==
  IF log[o][Len(log[o])] = status THEN log ELSE [log EXCEPT ![o] = Append(@, status)]

\* no update yet: every order has held the status of its row
FirstStatuses(rows) == [o \in Orders |-> <<StatusIn(rows, o)>>]

\* update ... set status: trg_orders_set_updated_at moves the row to the front
UpdatedOrders(rows, o, status) ==
  LET Others(r) == r.id # o IN <<OrderRow(o, status)>> \o SelectSeq(rows, Others)

(***************************************************************************)
(* Notification inbox                                                      *)
(***************************************************************************)
Message(kind, who, code, from, to, file) ==
  [kind |-> kind, who |-> who, code |-> code, from |-> from, to |-> to, file |-> file]

\* faulty variant: the inbox is never cut
pushNotification_NoSlice(prev, n, title, message, orderId) ==
  LET item == [id |-> n, title |-> title, message |-> message, created_at |-> n,
               read |-> FALSE, order_id |-> orderId]
  IN  <<item>> \o prev

\* faulty variant: the new entry goes to the tail
pushNotification_AtTail(prev, n, title, message, orderId) ==
  LET item == [id |-> n, title |-> title, message |-> message, created_at |-> n,
               read |-> FALSE, order_id |-> orderId]
  IN  Take(prev \o <<item>>, InboxCap)

\* pushNotification: [item, ...prev].slice(0, 50); the id is unique per call
pushNotification(prev, n, title, message, orderId) ==
  LET item == [id |-> n, title |-> title, message |-> message, created_at |-> n,
               read |-> FALSE, order_id |-> orderId]
  IN  Take(<<item>> \o prev, InboxCap)

\* getOrderCode: the loaded order's code, else the first 8 characters of the id
getOrderCode(ords, orderId) ==
  IF \E i \in 1..Len(ords) : ords[i].id = orderId
    THEN (LET i == CHOOSE j \in 1..Len(ords) : ords[j].id = orderId IN ords[i].order_code)
    ELSE orderId

(***************************************************************************)
(* Status diff (ordersChannel handler and syncEvents)                      *)
(***************************************************************************)
\* orderStatusMapRef.current.get(newRow.id) ?? oldRow.status
previousStatus(map, oldRow, newRow) ==
  IF map[newRow.id] # None THEN map[newRow.id] ELSE oldRow.status

\* faulty variant: a missing previous status counts as a different one
TransitionDetected_NoPriorCheck(prev, next) == prev # next

\* previousStatus && previousStatus !== newRow.status
TransitionDetected(prev, next) == prev # None /\ prev # next

\* faulty variant: no ownership gate
isClientOwn_Ungated(p, client_id) == TRUE

isClientOwn(p, client_id) == IF p.role = "client" THEN client_id = p.id ELSE TRUE

StatusChangedTitle == "Order Status Changed"

\* faulty variant: the two labels change places
StatusMessage_Swapped(ords, id, prev, next) ==
  Message("moved", None, getOrderCode(ords, id), StatusLabel(next), StatusLabel(prev), None)

StatusMessage(ords, id, prev, next) ==
  Message("moved", None, getOrderCode(ords, id), StatusLabel(prev), StatusLabel(next), None)

\* new Map(rows.map(row => [row.id, row.status]))
MapOfRows(rows) ==
  [o \in Orders |->
     IF \E i \in 1..Len(rows) : rows[i].id = o
       THEN (LET i == CHOOSE j \in 1..Len(rows) :
                        rows[j].id = o /\ \A k \in (j+1)..Len(rows) : rows[k].id # o
             IN rows[i].status)
       ELSE None]

EmptyMap == [o \in Orders |-> None]

\* one evaluation of the diff: what it compared and whether it notified
Eval(id, prev, status, client_id, notified) ==
  [id |-> id, prev |-> prev, status |-> status, client_id |-> client_id, notified |-> notified]

\* faulty variant: the map is written only when a notification fires
DiffRow_SetOnNotify(acc, p, ords, prev, row) ==
  LET fire == TransitionDetected(prev, row.status) /\ isClientOwn(p, row.client_id)
  IN  [map    |-> IF fire THEN [acc.map EXCEPT ![row.id] = row.status] ELSE acc.map,
       notifs |-> IF fire
                    THEN pushNotification(acc.notifs, acc.seq + 1, StatusChangedTitle,
                                          StatusMessage(ords, row.id, prev, row.status), row.id)
                    ELSE acc.notifs,
       seq    |-> IF fire THEN acc.seq + 1 ELSE acc.seq,
       evals  |-> acc.evals \cup {Eval(row.id, prev, row.status, row.client_id, fire)}]

\* the diff applied to one row; acc carries map, notifs, seq, evals
DiffRow(acc, p, ords, prev, row) ==
  LET fire == TransitionDetected(prev, row.status) /\ isClientOwn(p, row.client_id)
  IN  [map    |-> [acc.map EXCEPT ![row.id] = row.status],
       notifs |-> IF fire
                    THEN pushNotification(acc.notifs, acc.seq + 1, StatusChangedTitle,
                                          StatusMessage(ords, row.id, prev, row.status), row.id)
                    ELSE acc.notifs,
       seq    |-> IF fire THEN acc.seq + 1 ELSE acc.seq,
       evals  |-> acc.evals \cup {Eval(row.id, prev, row.status, row.client_id, fire)}]

\* syncEvents: ordersResult.data.forEach
RECURSIVE SyncOrdersRows(_, _, _, _, _)
SyncOrdersRows(acc, p, ords, rows, i) ==
  IF i > Len(rows) THEN acc
  ELSE SyncOrdersRows(DiffRow(acc, p, ords, acc.map[rows[i].id], rows[i]), p, ords, rows, i + 1)

(***************************************************************************)
(* Requests in flight                                                      *)
(***************************************************************************)
Pending == [st |-> "pending", rows |-> <<>>]

Done(rows) == [st |-> "done", rows |-> rows]

NoRequest == [st |-> "none", rows |-> <<>>]

\* a syncEvents call: the cursors are read when the queries are built
PendingSync(cAfter, fAfter) ==
  [st |-> "pending", cAfter |-> cAfter, fAfter |-> fAfter,
   orders |-> <<>>, comments |-> <<>>, files |-> <<>>, err |-> {}]

(***************************************************************************)
(* The server: other users change the status of an order                   *)
(***************************************************************************)
\* the change event of the orders table, as the realtime channel carries it
OrderEvent(eventType, o, oldStatus, newStatus) ==
  [eventType |-> eventType,
   old |-> [id |-> o, status |-> IF replicaFull THEN oldStatus ELSE None],
   new |-> OrderRow(o, newStatus)]

\* the event is queued for the subscriber, or lost with the connection
Emitted(channel, ev, delivered) ==
  IF delivered /\ Len(channel) < MaxPush THEN Append(channel, ev) ELSE channel

Eligible(p, o) == isClientOwn(p, OrderClient(o))

ServerStatusChange(o, s, delivered) ==
  /\ updates < MaxChanges
  /\ s # ServerStatusOf(o)
  /\ srvOrders' = UpdatedOrders(srvOrders, o, s)
  /\ statusLog' = LoggedStatus(statusLog, o, s)
  /\ ordersChannel' = Emitted(ordersChannel, OrderEvent("UPDATE", o, ServerStatusOf(o), s), delivered)
  /\ updates' = updates + 1
  /\ changes' = [changes EXCEPT ![o] = @ + 1]
  /\ owed' = [owed EXCEPT ![o] = @ \/ (orderStatusMap[o] # None /\ Eligible(profile, o))]
  /\ UNCHANGED <<nav, detailQ, profile, srvComments, srvFiles, replicaFull, srvRoles, orders, profilesById, refs, inbox,
                 commentsChannel, filesChannel, requests, selfChanges, feedLog>>

(***************************************************************************)
(* The viewer changes a status: handleStatusUpdate, handleUpdateOrder      *)
(***************************************************************************)
\* update(...).eq(id) under orders_update_admin_staff, then loadOrders(profile)
ViewerUpdate(o, s, delivered) ==
  /\ IsStaffTier(profile.role)
  /\ orders_update_admin_staff(profile.id)
  /\ \E i \in 1..Len(orders) : orders[i].id = o
  /\ Len(loadQ) < MaxLoads
  /\ updates < MaxChanges
  /\ srvOrders' = UpdatedOrders(srvOrders, o, s)
  /\ statusLog' = LoggedStatus(statusLog, o, s)
  /\ ordersChannel' = Emitted(ordersChannel, OrderEvent("UPDATE", o, ServerStatusOf(o), s), delivered)
  /\ updates' = updates + 1
  /\ changes' = IF s # ServerStatusOf(o) THEN [changes EXCEPT ![o] = @ + 1] ELSE changes
  /\ selfChanges' = IF s # ServerStatusOf(o) THEN [selfChanges EXCEPT ![o] = @ + 1] ELSE selfChanges
  /\ loadQ' = Append(loadQ, Done(LoadOrdersQuery(profile, srvOrders')))
  /\ UNCHANGED <<nav, detailQ, profile, srvComments, srvFiles, replicaFull, srvRoles, orders, profilesById, refs, inbox,
                 commentsChannel, filesChannel, syncQ, seedReq, owed, feedLog>>

\* handleStatusUpdate: the selected order, statusDraft
handleStatusUpdate == \E o \in Updated, s \in Statuses, d \in BOOLEAN : ViewerUpdate(o, s, d)

\* handleUpdateOrder: the order being edited, the form's status
handleUpdateOrder == \E o \in Updated, s \in Statuses, d \in BOOLEAN : ViewerUpdate(o, s, d)

(***************************************************************************)
(* The detail view: selectedOrder, loadOrderDetails and the effect on       *)
(* [selectedOrder?.id, profile?.role]                                       *)
(***************************************************************************)
Reverse(s) == [k \in 1..Len(s) |-> s[Len(s) + 1 - k]]

\* selectedOrder?.id: orders.find((o) => o.id === selectedOrderId) ?? null
selectedOrder(ords, sel) ==
  IF sel # None /\ (\E k \in 1..Len(ords) : ords[k].id = sel) THEN sel ELSE None

\* commentsQuery: .eq('order_id', orderId), ascending by created_at, with
\* .eq('is_internal', false) for a client, under the select policy of the sender
CommentsOfOrder(uid, currentRole, rows, orderId) ==
  LET Hit(r) == /\ comments_select_by_role(uid, r)
                /\ r.order_id = orderId
                /\ currentRole = "client" => ~r.is_internal
  IN  SelectSeq(rows, Hit)

\* the order_files query: .eq('order_id', orderId), descending by created_at
FilesOfOrder(uid, rows, orderId) ==
  LET Hit(r) == order_files_select_by_role(uid, r) /\ r.order_id = orderId
  IN  Reverse(SelectSeq(rows, Hit))

\* loadOrderDetails(orderId, currentRole) up to its await, with the answer of the two
\* queries; err holds the queries that come back with an error
DetailsRequest(p, orderId, currentRole) ==
  [order_id |-> orderId,
   comments |-> CommentsOfOrder(p.id, currentRole, srvComments, orderId),
   files |-> FilesOfOrder(p.id, srvFiles, orderId),
   err |-> {}]

\* the effect after a render from (p0, ords0, sel0) to (p1, ords1, sel1): it runs when
\* selectedOrder?.id or profile?.role has changed and returns without both; calls with
\* the same order and the same answer are one element of the set
DetailsEffect(q, p0, ords0, sel0, p1, ords1, sel1) ==
  IF /\ selectedOrder(ords1, sel1) # None
     /\ p1.id # None
     /\ \/ selectedOrder(ords1, sel1) # selectedOrder(ords0, sel0)
        \/ p1.role # p0.role
    THEN q \cup {DetailsRequest(p1, selectedOrder(ords1, sel1), p1.role)}
    ELSE q

\* a channel handler: if (selectedOrderId && row.order_id === selectedOrderId)
\*   void loadOrderDetails(selectedOrderId, profile.role)
DetailsReload(q, reached, orderId) ==
  IF reached /\ selectedOrderId # None /\ orderId = selectedOrderId
    THEN q \cup {DetailsRequest(profile, selectedOrderId, profile.role)}
    ELSE q

(***************************************************************************)
(* ordersChannel handler                                                   *)
(***************************************************************************)
\* faulty variant: the status of the new row is not looked at
OrdersPushAcc_IdOnly(ev) ==
  LET acc0 == [map |-> orderStatusMap, notifs |-> notifications, seq |-> notifSeq, evals |-> {}]
  IN  IF ev.eventType \in {"UPDATE", "INSERT"} /\ ev.new.id # None
        THEN DiffRow(acc0, profile, orders, previousStatus(orderStatusMap, ev.old, ev.new), ev.new)
        ELSE acc0

OrdersPushAcc(ev) ==
  LET acc0 == [map |-> orderStatusMap, notifs |-> notifications, seq |-> notifSeq, evals |-> {}]
  IN  IF ev.eventType \in {"UPDATE", "INSERT"} /\ ev.new.id # None /\ ev.new.status # None
        THEN DiffRow(acc0, profile, orders, previousStatus(orderStatusMap, ev.old, ev.new), ev.new)
        ELSE acc0

\* the handler, then void loadOrders(profile)
OrdersPush ==
  /\ Len(ordersChannel) > 0
  /\ Len(loadQ) < MaxLoads
  /\ LET acc == OrdersPushAcc(Head(ordersChannel))
     IN  /\ orderStatusMap' = acc.map
         /\ notifications' = acc.notifs
         /\ notifSeq' = acc.seq
  /\ ordersChannel' = Tail(ordersChannel)
  /\ loadQ' = Append(loadQ, Done(LoadOrdersQuery(profile, srvOrders)))
  /\ detailQ' = DetailsReload(detailQ,
                              Head(ordersChannel).eventType \in {"UPDATE", "INSERT"},
                              Head(ordersChannel).new.id)
  /\ UNCHANGED <<nav, profile, server, orders, profilesById, knownCommentIds, knownFileIds,
                 lastCommentSeenAt, lastFileSeenAt, commentsChannel, filesChannel,
                 syncQ, seedReq, history>>

(***************************************************************************)
(* loadOrders and the useEffect([orders]) that follows setOrders           *)
(***************************************************************************)
LoadOrdersEval(i) ==
  /\ loadQ[i].st = "pending"
  /\ loadQ' = [loadQ EXCEPT ![i] = Done(LoadOrdersQuery(profile, srvOrders))]
  /\ UNCHANGED <<nav, detailQ, profile, server, orders, profilesById, refs, inbox, channels, syncQ, seedReq,
                 history>>

\* setOrders(data); then ordersRef.current = orders and the status map is rebuilt
LoadOrdersDone(i) ==
  /\ loadQ[i].st = "done"
  /\ orders' = loadQ[i].rows
  /\ orderStatusMap' = MapOfRows(loadQ[i].rows)
  /\ loadQ' = Remove(loadQ, i)
  /\ detailQ' = DetailsEffect(detailQ, profile, orders, selectedOrderId,
                               profile, loadQ[i].rows, selectedOrderId)
  /\ UNCHANGED <<nav, profile, server, profilesById, knownCommentIds, knownFileIds,
                 lastCommentSeenAt, lastFileSeenAt, inbox, channels, syncQ, seedReq, history>>

(***************************************************************************)
(* seedStatusMap                                                           *)
(***************************************************************************)
SeedEval ==
  /\ seedReq.st = "pending"
  /\ seedReq' = Done(SyncOrdersQuery(profile, srvOrders))
  /\ UNCHANGED <<nav, detailQ, profile, server, orders, profilesById, refs, inbox, channels, syncQ, loadQ,
                 history>>

seedStatusMap ==
  /\ seedReq.st = "done"
  /\ orderStatusMap' = MapOfRows(seedReq.rows)
  /\ seedReq' = NoRequest
  /\ UNCHANGED <<nav, detailQ, profile, server, orders, profilesById, knownCommentIds, knownFileIds,
                 lastCommentSeenAt, lastFileSeenAt, inbox, channels, syncQ, loadQ, history>>

(***************************************************************************)
(* Comments and files: policies, queries, inserts                          *)
(***************************************************************************)
CommentIds == 1..MaxRows

FileIds == 1..MaxRows

\* .gt('created_at', cursor).order('created_at', asc).limit(100), under the select policy
SyncCommentsQuery(p, rows, after) ==
  LET Hit(r) == comments_select_by_role(p.id, r) /\ r.created_at > after
  IN  Take(SelectSeq(rows, Hit), EventsLimit)

SyncFilesQuery(p, rows, after) ==
  LET Hit(r) == order_files_select_by_role(p.id, r) /\ r.created_at > after
  IN  Take(SelectSeq(rows, Hit), EventsLimit)

\* comment and file ids and timestamps are positive numbers; 0 is a missing one
NoId(id) == id = 0

LogEntry == [new |-> 0, pushed |-> 0, viaPush |-> FALSE, viaPull |-> FALSE]

EmptyLog == [c |-> [i \in CommentIds |-> LogEntry], f |-> [i \in FileIds |-> LogEntry]]

\* handlePostComment's insert, by any user: the id and created_at are the server's
InsertComment(u, o, internal, delivered) ==
  LET row == [id |-> Len(srvComments) + 1, order_id |-> o, author_id |-> u,
              is_internal |-> internal, created_at |-> Len(srvComments) + 1]
  IN  /\ Len(srvComments) + Len(srvFiles) < MaxRows
      /\ comments_insert_by_role(u, row)
      /\ srvComments' = Append(srvComments, row)
      /\ commentsChannel' = Emitted(commentsChannel, [eventType |-> "INSERT", new |-> row], delivered)
      /\ UNCHANGED <<nav, detailQ, profile, srvOrders, srvFiles, replicaFull, srvRoles, statusLog, orders, profilesById, refs, inbox,
                     ordersChannel, filesChannel, requests, history>>

\* uploadOrderFile's insert, by any user
InsertFile(u, o, delivered) ==
  LET row == [id |-> Len(srvFiles) + 1, order_id |-> o, uploaded_by |-> u,
              file_name |-> "brief.pdf", created_at |-> Len(srvFiles) + 1]
  IN  /\ Len(srvComments) + Len(srvFiles) < MaxRows
      /\ order_files_insert_admin_staff(u, row)
      /\ srvFiles' = Append(srvFiles, row)
      /\ filesChannel' = Emitted(filesChannel, [eventType |-> "INSERT", new |-> row], delivered)
      /\ UNCHANGED <<nav, detailQ, profile, srvOrders, srvComments, replicaFull, srvRoles, statusLog, orders, profilesById, refs,
                     inbox, ordersChannel, commentsChannel, requests, history>>

\* loadProfiles: setProfiles(data), then profilesByIdRef.current = profilesById
loadProfiles ==
  /\ profilesById = {}
  /\ profilesById' = Users
  /\ UNCHANGED <<nav, detailQ, profile, server, orders, refs, inbox, channels, requests, history>>

(***************************************************************************)
(* Dedup gate and notification synthesis for comments and files            *)
(***************************************************************************)
\* faulty variant: a gate that remembers nothing
AlreadyKnown_Forgetful(known, id) == FALSE

\* knownCommentIdsRef.current.has(id) / knownFileIdsRef.current.has(id)
AlreadyKnown(known, id) == id \in known

\* faulty variant: no self check
IsSelf_Never(p, actor) == FALSE

\* row.author_id === profile.id / row.uploaded_by === profile.id
IsSelf(p, actor) == actor = p.id

\* faulty variant: the viewer's role is not looked at
IsClientMessage_AnyViewer(p, found, authorRole) == found /\ authorRole = "client"

\* profile.role !== 'client' && author?.role === 'client'
IsClientMessage(p, found, authorRole) == p.role # "client" /\ found /\ authorRole = "client"

\* author.full_name || author.email
DisplayName(a) == IF a.full_name \notin {None, ""} THEN a.full_name ELSE a.email

ClientMessageTitle == "Client Message"

NewCommentTitle == "New Comment"

NewFileTitle == "New File Uploaded"

\* commentsChannel handler: the notification for a comment that passed the gate
PushCommentNotification(p, byId, ords, row) ==
  LET found == row.author_id # None /\ row.author_id \in byId
  IN  IF IsClientMessage(p, found, IF found THEN RoleOf(row.author_id) ELSE None)
        THEN [title |-> ClientMessageTitle,
              message |-> Message("sent a comment", DisplayName(ProfileRow(row.author_id)),
                                  getOrderCode(ords, row.order_id), None, None, None)]
        ELSE [title |-> NewCommentTitle,
              message |-> Message("new comment", None, getOrderCode(ords, row.order_id),
                                  None, None, None)]

\* syncEvents: the notification for a comment that passed the gate
SyncCommentNotification(p, byId, ords, row) ==
  [title |-> NewCommentTitle,
   message |-> Message("new comment", None, getOrderCode(ords, row.order_id), None, None, None)]

\* both paths: the notification for a file that passed the gate
FileNotification(p, byId, ords, row) ==
  [title |-> NewFileTitle,
   message |-> Message("was uploaded", None, getOrderCode(ords, row.order_id), None, None,
                       IF row.file_name # None THEN row.file_name ELSE "A file")]

Logged(log, id, path, isNew, pushed) ==
  [log EXCEPT ![id] = [new     |-> @.new + (IF isNew THEN 1 ELSE 0),
                       pushed  |-> @.pushed + (IF pushed THEN 1 ELSE 0),
                       viaPush |-> @.viaPush \/ path = "push",
                       viaPull |-> @.viaPull \/ path = "pull"]]

\* faulty variant: the cursor moves past the row's timestamp
Advanced_PastRow(cursor, created_at) ==
  IF created_at > 0 /\ created_at > cursor THEN created_at + 1 ELSE cursor

\* item.created_at && item.created_at > cursor
Advanced(cursor, created_at) ==
  IF created_at > 0 /\ created_at > cursor THEN created_at ELSE cursor

\* faulty variant: the set keeps the latest id only
GateRow_KeepsLatest(acc, path, actor, row, note) ==
  IF AlreadyKnown(acc.known, row.id)
    THEN [acc EXCEPT !.log = Logged(@, row.id, path, FALSE, FALSE)]
    ELSE LET fire == ~IsSelf(profile, actor)
         IN  [known  |-> {row.id},
              cursor |-> IF path = "pull" THEN Advanced(acc.cursor, row.created_at) ELSE acc.cursor,
              notifs |-> IF fire
                           THEN pushNotification(acc.notifs, acc.seq + 1, note.title,
                                                 note.message, row.order_id)
                           ELSE acc.notifs,
              seq    |-> IF fire THEN acc.seq + 1 ELSE acc.seq,
              log    |-> Logged(acc.log, row.id, path, TRUE, fire)]

\* one row through the gate; acc carries known, cursor, notifs, seq, log.
\* The push handlers leave the cursor alone; syncEvents advances it for a new row only.
GateRow(acc, path, actor, row, note) ==
  IF AlreadyKnown(acc.known, row.id)
    THEN [acc EXCEPT !.log = Logged(@, row.id, path, FALSE, FALSE)]
    ELSE LET fire == ~IsSelf(profile, actor)
         IN  [known  |-> acc.known \cup {row.id},
              cursor |-> IF path = "pull" THEN Advanced(acc.cursor, row.created_at) ELSE acc.cursor,
              notifs |-> IF fire
                           THEN pushNotification(acc.notifs, acc.seq + 1, note.title,
                                                 note.message, row.order_id)
                           ELSE acc.notifs,
              seq    |-> IF fire THEN acc.seq + 1 ELSE acc.seq,
              log    |-> Logged(acc.log, row.id, path, TRUE, fire)]

\* syncEvents: commentsResult.data.forEach
RECURSIVE SyncCommentRows(_, _, _)
SyncCommentRows(acc, rows, i) ==
  IF i > Len(rows) THEN acc
  ELSE SyncCommentRows(
         GateRow(acc, "pull", rows[i].author_id, rows[i],
                 SyncCommentNotification(profile, profilesById, orders, rows[i])),
         rows, i + 1)

\* syncEvents: filesResult.data.forEach
RECURSIVE SyncFileRows(_, _, _)
SyncFileRows(acc, rows, i) ==
  IF i > Len(rows) THEN acc
  ELSE SyncFileRows(
         GateRow(acc, "pull", rows[i].uploaded_by, rows[i],
                 FileNotification(profile, profilesById, orders, rows[i])),
         rows, i + 1)

\* commentsChannel handler
CommentsPush ==
  /\ Len(commentsChannel) > 0
  /\ LET row == Head(commentsChannel).new
         acc == IF row.order_id = None \/ NoId(row.id)
                  THEN [known |-> knownCommentIds, cursor |-> lastCommentSeenAt,
                        notifs |-> notifications, seq |-> notifSeq, log |-> feedLog.c]
                  ELSE GateRow([known |-> knownCommentIds, cursor |-> lastCommentSeenAt,
                                notifs |-> notifications, seq |-> notifSeq, log |-> feedLog.c],
                               "push", row.author_id, row,
                               PushCommentNotification(profile, profilesById, orders, row))
     IN  /\ knownCommentIds' = acc.known
         /\ notifications' = acc.notifs
         /\ notifSeq' = acc.seq
         /\ feedLog' = [feedLog EXCEPT !.c = acc.log]
  /\ commentsChannel' = Tail(commentsChannel)
  /\ detailQ' = DetailsReload(detailQ, notifSeq' > notifSeq, Head(commentsChannel).new.order_id)
  /\ UNCHANGED <<nav, profile, server, orders, profilesById, orderStatusMap, knownFileIds,
                 lastCommentSeenAt, lastFileSeenAt, ordersChannel, filesChannel, requests,
                 updates, changes, selfChanges, owed>>

\* filesChannel handler
FilesPush ==
  /\ Len(filesChannel) > 0
  /\ LET row == Head(filesChannel).new
         acc == IF row.order_id = None \/ NoId(row.id)
                  THEN [known |-> knownFileIds, cursor |-> lastFileSeenAt,
                        notifs |-> notifications, seq |-> notifSeq, log |-> feedLog.f]
                  ELSE GateRow([known |-> knownFileIds, cursor |-> lastFileSeenAt,
                                notifs |-> notifications, seq |-> notifSeq, log |-> feedLog.f],
                               "push", row.uploaded_by, row,
                               FileNotification(profile, profilesById, orders, row))
     IN  /\ knownFileIds' = acc.known
         /\ notifications' = acc.notifs
         /\ notifSeq' = acc.seq
         /\ feedLog' = [feedLog EXCEPT !.f = acc.log]
  /\ filesChannel' = Tail(filesChannel)
  /\ detailQ' = DetailsReload(detailQ, notifSeq' > notifSeq, Head(filesChannel).new.order_id)
  /\ UNCHANGED <<nav, profile, server, orders, profilesById, orderStatusMap, knownCommentIds,
                 lastCommentSeenAt, lastFileSeenAt, ordersChannel, commentsChannel, requests,
                 updates, changes, selfChanges, owed>>

(***************************************************************************)
(* syncEvents: the 5 s timer, the three queries, the response              *)
(***************************************************************************)
\* the three queries of one syncEvents call, answered by the server
SyncResult(req) ==
  [req EXCEPT !.st = "done",
              !.orders = SyncOrdersQuery(profile, srvOrders),
              !.comments = SyncCommentsQuery(profile, srvComments, req.cAfter),
              !.files = SyncFilesQuery(profile, srvFiles, req.fAfter)]

\* the three queries of one syncEvents call
Streams == {"orders", "comments", "files"}

\* the response when the queries of the streams in failed come back with an error
\* ({ data: null, error }) and the others with their rows
SyncFailure(req, failed) ==
  [SyncResult(req) EXCEPT !.err = failed,
                          !.orders = IF "orders" \in failed THEN <<>> ELSE @,
                          !.comments = IF "comments" \in failed THEN <<>> ELSE @,
                          !.files = IF "files" \in failed THEN <<>> ELSE @]

\* faulty variant: one error makes the handler skip the whole response
StreamOk_AllOrNothing(res, stream) == res.err = {}

\* !result.error && result.data
StreamOk(res, stream) == stream \notin res.err

\* the rows of a stream that the handler goes through
StreamRows(res, stream) == IF StreamOk(res, stream) THEN res[stream] ELSE <<>>

SyncTick ==
  /\ Len(syncQ) < MaxSync
  /\ syncQ' = Append(syncQ, SyncResult(PendingSync(lastCommentSeenAt, lastFileSeenAt)))
  /\ UNCHANGED <<nav, detailQ, profile, server, orders, profilesById, refs, inbox, channels, loadQ, seedReq,
                 history>>

SyncEval(i) ==
  /\ syncQ[i].st = "pending"
  /\ syncQ' = [syncQ EXCEPT ![i] = SyncResult(@)]
  /\ UNCHANGED <<nav, detailQ, profile, server, orders, profilesById, refs, inbox, channels, loadQ, seedReq,
                 history>>

SyncOrdersAcc(res) ==
  SyncOrdersRows([map |-> orderStatusMap, notifs |-> notifications, seq |-> notifSeq,
                  evals |-> {}],
                 profile, orders, StreamRows(res, "orders"), 1)

\* faulty variant: a response with an error clears the interval timer
syncEvents_ClearsTimerOnError(i) ==
  /\ syncQ[i].st = "done"
  /\ LET accO == SyncOrdersAcc(syncQ[i])
         accC == SyncCommentRows([known |-> knownCommentIds, cursor |-> lastCommentSeenAt,
                                  notifs |-> accO.notifs, seq |-> accO.seq, log |-> feedLog.c],
                                 StreamRows(syncQ[i], "comments"), 1)
         accF == SyncFileRows([known |-> knownFileIds, cursor |-> lastFileSeenAt,
                               notifs |-> accC.notifs, seq |-> accC.seq, log |-> feedLog.f],
                              StreamRows(syncQ[i], "files"), 1)
     IN  /\ orderStatusMap' = accO.map
         /\ knownCommentIds' = accC.known
         /\ lastCommentSeenAt' = accC.cursor
         /\ knownFileIds' = accF.known
         /\ lastFileSeenAt' = accF.cursor
         /\ notifications' = accF.notifs
         /\ notifSeq' = accF.seq
         /\ feedLog' = [c |-> accC.log, f |-> accF.log]
  /\ syncQ' = Remove(syncQ, i)
  /\ timer' = (timer /\ syncQ[i].err = {})
  /\ UNCHANGED <<selectedOrderId, fetchQ, fetched, sessions, toasts, view, detailQ, profile, server, orders, profilesById, channels, loadQ, seedReq,
                 updates, changes, selfChanges, owed>>

\* the response: orders, then comments, then files
syncEvents(i) ==
  /\ syncQ[i].st = "done"
  /\ LET accO == SyncOrdersAcc(syncQ[i])
         accC == SyncCommentRows([known |-> knownCommentIds, cursor |-> lastCommentSeenAt,
                                  notifs |-> accO.notifs, seq |-> accO.seq, log |-> feedLog.c],
                                 StreamRows(syncQ[i], "comments"), 1)
         accF == SyncFileRows([known |-> knownFileIds, cursor |-> lastFileSeenAt,
                               notifs |-> accC.notifs, seq |-> accC.seq, log |-> feedLog.f],
                              StreamRows(syncQ[i], "files"), 1)
     IN  /\ orderStatusMap' = accO.map
         /\ knownCommentIds' = accC.known
         /\ lastCommentSeenAt' = accC.cursor
         /\ knownFileIds' = accF.known
         /\ lastFileSeenAt' = accF.cursor
         /\ notifications' = accF.notifs
         /\ notifSeq' = accF.seq
         /\ feedLog' = [c |-> accC.log, f |-> accF.log]
  /\ syncQ' = Remove(syncQ, i)
  /\ UNCHANGED <<nav, detailQ, profile, server, orders, profilesById, channels, loadQ, seedReq,
                 updates, changes, selfChanges, owed>>

(***************************************************************************)
(* A session: the state right after the profile is set and the effects of  *)
(* that render have run (loadOrders, subscribe, reset, seed, first sync).  *)
(***************************************************************************)
InitialOrders == <<OrderRow("o1", "not_started"), OrderRow("o2", "in_progress")>>

SessionStart(v) ==
  /\ profile = ProfileRow(v)
  /\ orders = <<>>
  /\ profilesById = {}
  /\ orderStatusMap = EmptyMap
  /\ knownCommentIds = {}
  /\ knownFileIds = {}
  /\ lastCommentSeenAt = 0
  /\ lastFileSeenAt = 0
  /\ notifications = <<>>
  /\ notifSeq = 0
  /\ ordersChannel = <<>>
  /\ commentsChannel = <<>>
  /\ filesChannel = <<>>
  /\ syncQ = <<PendingSync(0, 0)>>
  /\ loadQ = <<Pending>>
  /\ seedReq = Pending
  /\ updates = 0
  /\ changes = [o \in Orders |-> 0]
  /\ selfChanges = [o \in Orders |-> 0]
  /\ owed = [o \in Orders |-> FALSE]
  /\ feedLog = EmptyLog
  /\ selectedOrderId = None
  /\ fetchQ = <<>>
  /\ fetched = [o \in Orders |-> 0]
  /\ sessions = 1
  /\ toasts = <<>>
  /\ timer = TRUE
  /\ NothingOpen

Init ==
  /\ srvOrders = InitialOrders
  /\ srvComments = <<>>
  /\ srvFiles = <<>>
  /\ replicaFull \in BOOLEAN
  /\ srvRoles = InitialRoles
  /\ statusLog = FirstStatuses(srvOrders)
  /\ \E v \in Viewers : SessionStart(v)

\* the order-status feed
NextStatus ==
  \/ \E o \in Updated, s \in Statuses, d \in BOOLEAN : ServerStatusChange(o, s, d)
  \/ handleStatusUpdate
  \/ handleUpdateOrder
  \/ OrdersPush
  \/ \E i \in 1..Len(loadQ) : LoadOrdersEval(i)
  \/ \E i \in 1..Len(loadQ) : LoadOrdersDone(i)
  \/ SeedEval
  \/ seedStatusMap
  \/ SyncTick
  \/ \E i \in 1..Len(syncQ) : SyncEval(i)
  \/ \E i \in 1..Len(syncQ) : syncEvents(i)

SpecStatus == Init /\ [][NextStatus]_vars

\* the comment and file feed (replica identity plays no part in it)
InitFeed == Init /\ ~replicaFull /\ profile.id \in {"c1", "s1"}

\* who posts on which order while the session is active: a client on its own order,
\* staff on o1 (publicly or internally)
Posts ==
  { [by |-> "c1", on |-> "o1", internal |-> FALSE],
    [by |-> "c2", on |-> "o2", internal |-> FALSE],
    [by |-> "s1", on |-> "o1", internal |-> FALSE],
    [by |-> "s1", on |-> "o1", internal |-> TRUE] }

NextFeed ==
  \/ \E x \in Posts, d \in BOOLEAN : InsertComment(x.by, x.on, x.internal, d)
  \/ \E x \in Posts, d \in BOOLEAN : ~x.internal /\ InsertFile(x.by, x.on, d)
  \/ loadProfiles
  \/ CommentsPush
  \/ FilesPush
  \/ SyncTick
  \/ \E i \in 1..Len(syncQ) : SyncEval(i)
  \/ \E i \in 1..Len(syncQ) : syncEvents(i)

SpecFeed == InitFeed /\ [][NextFeed]_vars

\* the feed of client c1 while staff posts comments and files on its order, with the
\* scheduling of the pull: the interval timer fires again and again, a query that was
\* sent is answered, and an answer that arrived is handled
InitPull == Init /\ ~replicaFull /\ profile.id = "c1"

StaffPosts ==
  \/ \E d \in BOOLEAN : InsertComment("s1", "o1", FALSE, d)
  \/ \E d \in BOOLEAN : InsertFile("s1", "o1", d)

SyncAnswered == \E i \in 1..Len(syncQ) : SyncEval(i)

SyncHandled == \E i \in 1..Len(syncQ) : syncEvents(i)

NextPull ==
  \/ StaffPosts
  \/ CommentsPush
  \/ FilesPush
  \/ SyncTick
  \/ SyncAnswered
  \/ SyncHandled

SpecPull ==
  /\ InitPull
  /\ [][NextPull]_vars
  /\ WF_vars(SyncTick)
  /\ WF_vars(SyncAnswered)
  /\ WF_vars(SyncHandled)

(***************************************************************************)
(* Notification inbox: markAllNotificationsRead, openNotification          *)
(***************************************************************************)
\* faulty variant: the flag is flipped
MarkAllRead_Toggle(prev) == [k \in 1..Len(prev) |-> [prev[k] EXCEPT !.read = ~@]]

\* prev.map((item) => ({ ...item, read: true }))
MarkAllRead(prev) == [k \in 1..Len(prev) |-> [prev[k] EXCEPT !.read = TRUE]]

\* faulty variant: the flag of the opened entry is flipped
MarkRead_Flip(prev, id) ==
  [k \in 1..Len(prev) |-> IF prev[k].id = id THEN [prev[k] EXCEPT !.read = ~@] ELSE prev[k]]

\* faulty variant: every entry up to the opened one is marked
MarkRead_UpTo(prev, id) ==
  [k \in 1..Len(prev) |-> IF prev[k].id >= id THEN [prev[k] EXCEPT !.read = TRUE] ELSE prev[k]]

\* prev.map((n) => (n.id === item.id ? { ...n, read: true } : n))
MarkRead(prev, id) ==
  [k \in 1..Len(prev) |-> IF prev[k].id = id THEN [prev[k] EXCEPT !.read = TRUE] ELSE prev[k]]

\* ordersRef.current.some((order) => order.id === id) / prev.some(...)
HasOrder(ords, id) == \E k \in 1..Len(ords) : ords[k].id = id

\* data of .single() when no row comes back
NoOrder == [id |-> None, status |-> None, client_id |-> None, order_code |-> None]

\* select * from orders where id = ... .single(), under orders_select_by_role
SingleOrderQuery(p, rows, id, ok) ==
  LET hits == SelectSeq(SelectOrders(p.id, rows), LAMBDA r : r.id = id)
  IN  IF ok /\ Len(hits) = 1 THEN hits[1] ELSE NoOrder

\* faulty variant: the row is prepended without a look at prev
MergeOrder_Unguarded(prev, data) == <<data>> \o prev

\* setOrders((prev) => prev.some(...) ? prev : [data, ...prev])
MergeOrder(prev, data) == IF HasOrder(prev, data.id) THEN prev ELSE <<data>> \o prev

\* faulty variant: every entry counts, read or not
unreadNotificationCount_CountsAll == Len(notifications)

\* unreadNotificationCount
unreadNotificationCount ==
  Cardinality({k \in 1..Len(notifications) : ~notifications[k].read})

markAllNotificationsRead ==
  /\ notifications # <<>>
  /\ notifications' = MarkAllRead(notifications)
  /\ UNCHANGED <<nav, detailQ, profile, server, orders, profilesById, refs, notifSeq, channels, requests,
                 history>>

\* openNotification(item) up to its await: the entry is marked read; a loaded order is
\* selected at once, an order that is not loaded is queried first (ok: the query succeeds)
openNotification(item, ok) ==
  /\ notifications' = MarkRead(notifications, item.id)
  /\ IF item.order_id = None
       THEN UNCHANGED <<selectedOrderId, fetchQ, fetched>>
       ELSE IF HasOrder(orders, item.order_id)
              THEN /\ selectedOrderId' = item.order_id
                   /\ UNCHANGED <<fetchQ, fetched>>
              ELSE /\ Len(fetchQ) < MaxFetches
                   /\ fetchQ' = Append(fetchQ,
                                       [item |-> item.id, order_id |-> item.order_id,
                                        data |-> SingleOrderQuery(profile, srvOrders,
                                                                  item.order_id, ok)])
                   /\ fetched' = [fetched EXCEPT ![item.order_id] = @ + 1]
                   /\ UNCHANGED selectedOrderId
  /\ detailQ' = DetailsEffect(detailQ, profile, orders, selectedOrderId,
                               profile, orders, selectedOrderId')
  /\ UNCHANGED <<sessions, toasts, view, timer, profile, server, orders, profilesById, refs, notifSeq, channels,
                 requests, history>>

\* openNotification after its await: merge the row if one came back, then select the
\* order; a change of orders runs useEffect([orders]), which rebuilds the status map
openNotificationFetched(i) ==
  LET req == fetchQ[i]
      merged == IF req.data.id # None THEN MergeOrder(orders, req.data) ELSE orders
  IN  /\ orders' = merged
      /\ orderStatusMap' = IF merged # orders THEN MapOfRows(merged) ELSE orderStatusMap
      /\ selectedOrderId' = req.order_id
      /\ fetchQ' = Remove(fetchQ, i)
      /\ detailQ' = DetailsEffect(detailQ, profile, orders, selectedOrderId,
                                   profile, merged, req.order_id)
      /\ UNCHANGED <<fetched, sessions, toasts, view, timer, profile, server, profilesById, knownCommentIds,
                     knownFileIds, lastCommentSeenAt, lastFileSeenAt, inbox, channels, requests,
                     history>>

(***************************************************************************)
(* Sign-out and the next session                                           *)
(***************************************************************************)
\* useState profile after setProfile(null)
NoProfile == [id |-> None, email |-> None, full_name |-> None, role |-> None]

SignedIn == profile.id # None

\* faulty variant: the cleanup does not set the flag
Cancelled_NotSet(req) == req

\* the sync effect's cleanup sets cancelled: a response that arrives later is dropped
Cancelled(req) == [req EXCEPT !.st = "cancelled"]

\* new Date().toISOString() at session start: not before any row created so far
NowOf(rows) == Len(rows)

\* faulty variant: the sign-out leaves the notifications where they are
handleSignOut_KeepsInbox ==
  /\ SignedIn
  /\ profile' = NoProfile
  /\ orders' = <<>>
  /\ selectedOrderId' = None
  /\ knownCommentIds' = {}
  /\ knownFileIds' = {}
  /\ orderStatusMap' = EmptyMap
  /\ lastCommentSeenAt' = 0
  /\ lastFileSeenAt' = 0
  /\ ordersChannel' = <<>>
  /\ commentsChannel' = <<>>
  /\ filesChannel' = <<>>
  /\ syncQ' = [i \in 1..Len(syncQ) |-> Cancelled(syncQ[i])]
  /\ seedReq' = IF seedReq.st = "none" THEN seedReq ELSE Cancelled(seedReq)
  /\ loadQ' = [i \in 1..Len(loadQ) |->
                 IF loadQ[i].st = "pending" THEN Done(LoadOrdersQuery(profile, srvOrders))
                 ELSE loadQ[i]]
  /\ timer' = FALSE
  /\ comments' = <<>>
  /\ files' = <<>>
  /\ UNCHANGED <<inbox, server, profilesById, history, fetchQ, fetched, sessions, toasts, draft,
                 postQ, detailQ>>

\* handleSignOut after a successful auth.signOut() (onAuthStateChange does the same
\* assignments), with the cleanups of the realtime and the sync effect that the render
\* without a profile runs: channels removed, cancelled = true, timer cleared.
\* loadOrders and openNotification calls in flight are not cancelled.
handleSignOut ==
  /\ SignedIn
  /\ profile' = NoProfile
  /\ orders' = <<>>
  /\ selectedOrderId' = None
  /\ notifications' = <<>>
  /\ notifSeq' = 0
  /\ knownCommentIds' = {}
  /\ knownFileIds' = {}
  /\ orderStatusMap' = EmptyMap
  /\ lastCommentSeenAt' = 0
  /\ lastFileSeenAt' = 0
  /\ ordersChannel' = <<>>
  /\ commentsChannel' = <<>>
  /\ filesChannel' = <<>>
  /\ syncQ' = [i \in 1..Len(syncQ) |-> Cancelled(syncQ[i])]
  /\ seedReq' = IF seedReq.st = "none" THEN seedReq ELSE Cancelled(seedReq)
  /\ loadQ' = [i \in 1..Len(loadQ) |->
                 IF loadQ[i].st = "pending" THEN Done(LoadOrdersQuery(profile, srvOrders))
                 ELSE loadQ[i]]
  /\ timer' = FALSE
  /\ comments' = <<>>
  /\ files' = <<>>
  /\ UNCHANGED <<server, profilesById, history, fetchQ, fetched, sessions, toasts, draft, postQ,
                 detailQ>>

\* a cancelled syncEvents response arrives: if (cancelled) return
syncEventsCancelled(i) ==
  /\ syncQ[i].st = "cancelled"
  /\ syncQ' = Remove(syncQ, i)
  /\ UNCHANGED <<nav, detailQ, profile, server, orders, profilesById, refs, inbox, channels, loadQ, seedReq,
                 history>>

\* a cancelled seedStatusMap response arrives: if (!data || cancelled) return
seedStatusMapCancelled ==
  /\ seedReq.st = "cancelled"
  /\ seedReq' = NoRequest
  /\ UNCHANGED <<nav, detailQ, profile, server, orders, profilesById, refs, inbox, channels, syncQ, loadQ,
                 history>>

\* loadProfile sets the profile of the user who signed in; the effects of that render:
\* loadOrders, the three channels, the reset of the sync state, the seed, the first sync
SignIn(v) ==
  /\ ~SignedIn
  /\ sessions < MaxSessions
  /\ Len(loadQ) < MaxLoads
  /\ profile' = ProfileRow(v)
  /\ loadQ' = Append(loadQ, Pending)
  /\ knownCommentIds' = {}
  /\ knownFileIds' = {}
  /\ orderStatusMap' = EmptyMap
  /\ lastCommentSeenAt' = NowOf(srvComments)
  /\ lastFileSeenAt' = NowOf(srvFiles)
  /\ ordersChannel' = <<>>
  /\ commentsChannel' = <<>>
  /\ filesChannel' = <<>>
  /\ seedReq' = Pending
  /\ syncQ' = Append(syncQ, PendingSync(NowOf(srvComments), NowOf(srvFiles)))
  /\ sessions' = sessions + 1
  /\ timer' = TRUE
  /\ feedLog' = EmptyLog
  /\ detailQ' = DetailsEffect(detailQ, profile, orders, selectedOrderId,
                               ProfileRow(v), orders, selectedOrderId)
  /\ UNCHANGED <<server, orders, profilesById, inbox, selectedOrderId, fetchQ, fetched, toasts, view,
                 updates, changes, selfChanges, owed>>

(***************************************************************************)
(* The detail view: selecting an order, going back, the responses          *)
(***************************************************************************)
\* addToast(type, message): setToasts((prev) => [...prev, { id, type, message }])
addToast(prev, type, message) == Append(prev, [type |-> type, message |-> message])

\* a row of the order list is clicked (the list is rendered while no order is open)
SelectOrder(o) ==
  /\ SignedIn
  /\ selectedOrder(orders, selectedOrderId) = None
  /\ HasOrder(orders, o)
  /\ selectedOrderId' = o
  /\ detailQ' = DetailsEffect(detailQ, profile, orders, selectedOrderId, profile, orders, o)
  /\ UNCHANGED <<fetchQ, fetched, sessions, toasts, timer, view, profile, server, orders,
                 profilesById, refs, inbox, channels, requests, history>>

\* "Back to Orders": setSelectedOrderId(null); setComments([]); setFiles([])
BackToOrders ==
  /\ selectedOrder(orders, selectedOrderId) # None
  /\ selectedOrderId' = None
  /\ comments' = <<>>
  /\ files' = <<>>
  /\ UNCHANGED <<fetchQ, fetched, sessions, toasts, timer, draft, postQ, detailQ, profile, server,
                 orders, profilesById, refs, inbox, channels, requests, history>>

\* a button of the side navigation: setSelectedOrderId(null), the collections stay
Navigate ==
  /\ SignedIn
  /\ selectedOrderId # None
  /\ selectedOrderId' = None
  /\ UNCHANGED <<fetchQ, fetched, sessions, toasts, timer, view, detailQ, profile, server,
                 orders, profilesById, refs, inbox, channels, requests, history>>

\* the queries of a call in flight come back with an error ({ data: null, error })
DetailsFail ==
  \E req \in detailQ, failed \in (SUBSET {"comments", "files"}) \ {{}} :
    /\ req.err = {}
    /\ Len(toasts) < MaxFailures
    /\ detailQ' = (detailQ \ {req}) \cup
                  {[req EXCEPT !.err = failed,
                               !.comments = IF "comments" \in failed THEN <<>> ELSE @,
                               !.files = IF "files" \in failed THEN <<>> ELSE @]}
    /\ UNCHANGED <<nav, profile, server, orders, profilesById, refs, inbox, channels, requests,
                   history>>

\* the toasts of loadOrderDetails for the queries that failed, comments first
DetailsToasts(prev, err) ==
  LET afterComments == IF "comments" \in err
                         THEN addToast(prev, "error", "Failed to load comments") ELSE prev
  IN  IF "files" \in err THEN addToast(afterComments, "error", "Failed to load files")
      ELSE afterComments

\* loadOrderDetails after its await: each collection is replaced unless its query
\* failed; nothing ties the response to the order that is selected by now
loadOrderDetailsDone(req) ==
  /\ req \in detailQ
  /\ comments' = IF "comments" \in req.err THEN comments ELSE req.comments
  /\ files' = IF "files" \in req.err THEN files ELSE req.files
  /\ toasts' = DetailsToasts(toasts, req.err)
  /\ detailQ' = detailQ \ {req}
  /\ UNCHANGED <<selectedOrderId, fetchQ, fetched, sessions, timer, draft, postQ, profile, server,
                 orders, profilesById, refs, inbox, channels, requests, history>>

(***************************************************************************)
(* The comment form and handlePostComment                                  *)
(***************************************************************************)
\* what the user can type into the comment box
Texts == {"", " ", "hi"}

\* commentText.trim()
Trim(t) == IF t = " " THEN "" ELSE t

Attachments == {None, "brief.pdf"}

FileCategories == {"document", "other"}

\* the comment box: onChange -> setCommentText
setCommentText(t) ==
  /\ selectedOrder(orders, selectedOrderId) # None
  /\ t # commentText
  /\ commentText' = t
  /\ UNCHANGED <<selectedOrderId, fetchQ, fetched, sessions, toasts, timer, details,
                 commentInternal, commentFile, commentFileCategory, postQ, detailQ, profile,
                 server, orders, profilesById, refs, inbox, channels, requests, history>>

\* the "Internal only" checkbox, rendered for isAdminOrStaff
setCommentInternal(b) ==
  /\ selectedOrder(orders, selectedOrderId) # None
  /\ IsStaffTier(profile.role)
  /\ b # commentInternal
  /\ commentInternal' = b
  /\ UNCHANGED <<selectedOrderId, fetchQ, fetched, sessions, toasts, timer, details,
                 commentText, commentFile, commentFileCategory, postQ, detailQ, profile,
                 server, orders, profilesById, refs, inbox, channels, requests, history>>

\* the file input of the comment form
setCommentFile(f) ==
  /\ selectedOrder(orders, selectedOrderId) # None
  /\ f # commentFile
  /\ commentFile' = f
  /\ UNCHANGED <<selectedOrderId, fetchQ, fetched, sessions, toasts, timer, details,
                 commentText, commentInternal, commentFileCategory, postQ, detailQ, profile,
                 server, orders, profilesById, refs, inbox, channels, requests, history>>

\* the category select of the comment form
setCommentFileCategory(c) ==
  /\ selectedOrder(orders, selectedOrderId) # None
  /\ c # commentFileCategory
  /\ commentFileCategory' = c
  /\ UNCHANGED <<selectedOrderId, fetchQ, fetched, sessions, toasts, timer, details,
                 commentText, commentInternal, commentFile, postQ, detailQ, profile,
                 server, orders, profilesById, refs, inbox, channels, requests, history>>

\* handlePostComment up to its first await; the call keeps the values of the render it
\* was started in. Every call ends with one toast
handlePostComment ==
  /\ selectedOrder(orders, selectedOrderId) # None
  /\ SignedIn
  /\ ~(Trim(commentText) = "" /\ commentFile = None)
  /\ Len(postQ) < MaxPosts
  /\ Len(toasts) <= MaxFailures
  /\ postQ' = Append(postQ,
                     [order_id |-> selectedOrder(orders, selectedOrderId),
                      author_id |-> profile.id,
                      role |-> profile.role,
                      text |-> commentText,
                      internal |-> commentInternal,
                      file |-> commentFile,
                      category |-> commentFileCategory,
                      stage |-> IF commentFile # None THEN "upload" ELSE "comment",
                      uploaded |-> FALSE,
                      saved |-> FALSE])
  /\ UNCHANGED <<selectedOrderId, fetchQ, fetched, sessions, toasts, timer, details, draft,
                 detailQ, profile, server, orders, profilesById, refs, inbox, channels, requests,
                 history>>

\* a call of handlePostComment ends
EndPost(i) == postQ' = Remove(postQ, i)

\* faulty variant: the call goes on after the upload failed
PostUpload_GoesOn(i, ok) ==
  /\ postQ[i].stage = "upload"
  /\ ok => (SignedIn /\ storage_order_files_insert(profile.id, postQ[i].order_id))
  /\ IF ok
       THEN /\ postQ' = [postQ EXCEPT ![i].stage = "file", ![i].uploaded = TRUE]
            /\ UNCHANGED toasts
       ELSE /\ toasts' = addToast(toasts, "error", "Attachment upload failed")
            /\ postQ' = [postQ EXCEPT ![i].stage = "file"]
  /\ UNCHANGED <<selectedOrderId, fetchQ, fetched, sessions, timer, details, draft, detailQ,
                 profile, server, orders, profilesById, refs, inbox, channels, requests, history>>

\* storage.from('order-files').upload(path, commentFile) comes back, under the storage
\* policy for the user signed in by then
PostUpload(i, ok) ==
  /\ postQ[i].stage = "upload"
  /\ ok => (SignedIn /\ storage_order_files_insert(profile.id, postQ[i].order_id))
  /\ IF ok
       THEN /\ postQ' = [postQ EXCEPT ![i].stage = "file", ![i].uploaded = TRUE]
            /\ UNCHANGED toasts
       ELSE /\ toasts' = addToast(toasts, "error", "Attachment upload failed")
            /\ EndPost(i)
  /\ UNCHANGED <<selectedOrderId, fetchQ, fetched, sessions, timer, details, draft, detailQ,
                 profile, server, orders, profilesById, refs, inbox, channels, requests, history>>

\* the row handlePostComment inserts into order_files
PostedFile(c) ==
  [id |-> Len(srvFiles) + 1, order_id |-> c.order_id, uploaded_by |-> c.author_id,
   file_name |-> c.file, created_at |-> Len(srvFiles) + 1]

\* from('order_files').insert(...) comes back
PostFileInsert(i, ok) ==
  /\ postQ[i].stage = "file"
  /\ ok => /\ SignedIn
            /\ order_files_insert_admin_staff(profile.id, PostedFile(postQ[i]))
            /\ Len(srvComments) + Len(srvFiles) < MaxRows
  /\ IF ok
       THEN /\ srvFiles' = Append(srvFiles, PostedFile(postQ[i]))
            /\ postQ' = [postQ EXCEPT ![i].stage = "comment", ![i].saved = TRUE]
            /\ UNCHANGED toasts
       ELSE /\ toasts' = addToast(toasts, "error", "Attachment save failed")
            /\ EndPost(i)
            /\ UNCHANGED srvFiles
  /\ UNCHANGED <<selectedOrderId, fetchQ, fetched, sessions, timer, details, draft, detailQ,
                 profile, srvOrders, srvComments, replicaFull, srvRoles, statusLog, orders,
                 profilesById, refs, inbox, channels, requests, history>>

\* faulty variant: the draft flag is sent whatever the role
Payload_DraftFlag(c) ==
  [id |-> Len(srvComments) + 1, order_id |-> c.order_id, author_id |-> c.author_id,
   is_internal |-> c.internal, created_at |-> Len(srvComments) + 1]

\* payload: is_internal: isAdminOrStaff ? commentInternal : false; id and created_at
\* are the server's
Payload(c) ==
  [id |-> Len(srvComments) + 1, order_id |-> c.order_id, author_id |-> c.author_id,
   is_internal |-> IF IsStaffTier(c.role) THEN c.internal ELSE FALSE,
   created_at |-> Len(srvComments) + 1]

\* from('comments').insert(payload) comes back; on success the form is reset and
\* loadOrderDetails(selectedOrder.id, profile.role) runs with the values of the call
PostCommentInsert(i, ok) ==
  /\ postQ[i].stage = "comment"
  /\ ok => /\ SignedIn
            /\ comments_insert_by_role(profile.id, Payload(postQ[i]))
            /\ Len(srvComments) + Len(srvFiles) < MaxRows
  /\ EndPost(i)
  /\ IF ok
       THEN /\ srvComments' = Append(srvComments, Payload(postQ[i]))
            /\ commentText' = ""
            /\ commentInternal' = FALSE
            /\ commentFile' = None
            /\ commentFileCategory' = "document"
            /\ toasts' = addToast(toasts, "success", "Comment added")
            /\ detailQ' = detailQ \cup
                  {[order_id |-> postQ[i].order_id,
                    comments |-> CommentsOfOrder(profile.id, postQ[i].role, srvComments',
                                                 postQ[i].order_id),
                    files |-> FilesOfOrder(profile.id, srvFiles, postQ[i].order_id),
                    err |-> {}]}
       ELSE /\ toasts' = addToast(toasts, "error", "Could not post comment")
            /\ UNCHANGED <<srvComments, draft, detailQ>>
  /\ UNCHANGED <<selectedOrderId, fetchQ, fetched, sessions, timer, details, profile, srvOrders,
                 srvFiles, replicaFull, srvRoles, statusLog, orders, profilesById, refs, inbox,
                 channels, requests, history>>

(***************************************************************************)
(* The inbox under pushNotification calls, reads and session resets        *)
(***************************************************************************)
\* a session of v whose first loadOrders, seed and syncEvents have been handled
Loaded(v) ==
  /\ profile = ProfileRow(v)
  /\ orders = LoadOrdersQuery(ProfileRow(v), InitialOrders)
  /\ profilesById = Users
  /\ orderStatusMap = MapOfRows(SyncOrdersQuery(ProfileRow(v), InitialOrders))
  /\ knownCommentIds = {}
  /\ knownFileIds = {}
  /\ lastCommentSeenAt = 0
  /\ lastFileSeenAt = 0
  /\ ordersChannel = <<>>
  /\ commentsChannel = <<>>
  /\ filesChannel = <<>>
  /\ syncQ = <<>>
  /\ loadQ = <<>>
  /\ seedReq = NoRequest
  /\ updates = 0
  /\ changes = [o \in Orders |-> 0]
  /\ selfChanges = [o \in Orders |-> 0]
  /\ owed = [o \in Orders |-> FALSE]
  /\ feedLog = EmptyLog
  /\ selectedOrderId = None
  /\ fetchQ = <<>>
  /\ fetched = [o \in Orders |-> 0]
  /\ sessions = 1
  /\ toasts = <<>>
  /\ timer = TRUE
  /\ NothingOpen

\* the arguments of the n-th pushNotification call of a session, as the handlers build
\* them: a new comment on o1, a file on o2, a status change of o1, in turn
NthNote(n) ==
  CASE n % 3 = 1 -> [title |-> NewCommentTitle, order_id |-> "o1",
                     message |-> Message("new comment", None, OrderCodeOf("o1"), None, None, None)]
    [] n % 3 = 2 -> [title |-> NewFileTitle, order_id |-> "o2",
                     message |-> Message("was uploaded", None, OrderCodeOf("o2"), None, None,
                                         "brief.pdf")]
    [] OTHER     -> [title |-> StatusChangedTitle, order_id |-> "o1",
                     message |-> Message("moved", None, OrderCodeOf("o1"),
                                         StatusLabel("not_started"), StatusLabel("in_progress"),
                                         None)]

\* the inbox after the first n pushNotification calls of a session, none read: the
\* entries of the latest calls, the entry of call n first
Pushed(n) ==
  IF n = 0 THEN <<>>
  ELSE [k \in 1..Min(n, InboxCap) |->
          [id |-> n - k + 1, title |-> NthNote(n - k + 1).title,
           message |-> NthNote(n - k + 1).message, created_at |-> n - k + 1,
           read |-> FALSE, order_id |-> NthNote(n - k + 1).order_id]]

\* the session is followed from its start, or from the point where one more
\* notification fills the inbox
InitInbox ==
  /\ srvOrders = InitialOrders
  /\ srvComments = <<>>
  /\ srvFiles = <<>>
  /\ replicaFull = FALSE
  /\ srvRoles = InitialRoles
  /\ statusLog = FirstStatuses(srvOrders)
  /\ Loaded("s1")
  /\ notifSeq \in {0, InboxCap - 1}
  /\ notifications = Pushed(notifSeq)

\* a handler calls pushNotification(title, message, orderId)
Notify ==
  /\ SignedIn
  /\ notifSeq < MaxOverflow \/ (notifSeq >= InboxCap - 1 /\ notifSeq < InboxCap + MaxOverflow)
  /\ LET note == NthNote(notifSeq + 1)
     IN  notifications' = pushNotification(notifications, notifSeq + 1, note.title,
                                           note.message, note.order_id)
  /\ notifSeq' = notifSeq + 1
  /\ UNCHANGED <<nav, detailQ, profile, server, orders, profilesById, refs, channels, requests, history>>

\* the entries the user clicks: one of the two newest or the oldest one, MaxOpens unread
\* ones at most
Clickable(k) ==
  /\ k \in {1, 2, Len(notifications)}
  /\ \/ notifications[k].read
     \/ Len(notifications) - unreadNotificationCount < MaxOpens

NextInbox ==
  \/ Notify
  \/ markAllNotificationsRead
  \/ \E k \in 1..Len(notifications) :
       /\ Clickable(k)
       /\ HasOrder(orders, notifications[k].order_id)
       /\ openNotification(notifications[k], TRUE)
  \/ handleSignOut
  \/ SignIn("s1")
  \/ \E i \in 1..Len(loadQ) : LoadOrdersEval(i)
  \/ \E i \in 1..Len(loadQ) : LoadOrdersDone(i)

SpecInbox == InitInbox /\ [][NextInbox]_vars

(***************************************************************************)
(* The detail view across orders and sessions                              *)
(***************************************************************************)
\* a staff session with everything loaded; o1 has an internal comment and a file, o2 a
\* public comment, all by the staff member
InitDetail ==
  /\ srvOrders = InitialOrders
  /\ srvComments = <<[id |-> 1, order_id |-> "o1", author_id |-> "s1", is_internal |-> TRUE,
                      created_at |-> 1],
                     [id |-> 2, order_id |-> "o2", author_id |-> "s1", is_internal |-> FALSE,
                      created_at |-> 2]>>
  /\ srvFiles = <<[id |-> 1, order_id |-> "o1", uploaded_by |-> "s1", file_name |-> "brief.pdf",
                   created_at |-> 1]>>
  /\ replicaFull = FALSE
  /\ srvRoles = InitialRoles
  /\ statusLog = FirstStatuses(srvOrders)
  /\ Loaded("s1")
  /\ notifications = <<>>
  /\ notifSeq = 0

NextDetail ==
  \/ \E o \in Orders : SelectOrder(o)
  \/ BackToOrders
  \/ Navigate
  \/ DetailsFail
  \/ \E req \in detailQ : loadOrderDetailsDone(req)
  \/ handleSignOut
  \/ SignIn("c1")
  \/ \E i \in 1..Len(loadQ) : LoadOrdersEval(i)
  \/ \E i \in 1..Len(loadQ) : LoadOrdersDone(i)

SpecDetail == InitDetail /\ [][NextDetail]_vars

(***************************************************************************)
(* Posting comments with attachments, as staff and then as a client        *)
(***************************************************************************)
\* a staff session with everything loaded and nothing posted yet
InitPost ==
  /\ srvOrders = InitialOrders
  /\ srvComments = <<>>
  /\ srvFiles = <<>>
  /\ replicaFull = FALSE
  /\ srvRoles = InitialRoles
  /\ statusLog = FirstStatuses(srvOrders)
  /\ Loaded("s1")
  /\ notifications = <<>>
  /\ notifSeq = 0

NextPost ==
  \/ SelectOrder("o1")
  \/ \E t \in Texts : setCommentText(t)
  \/ \E b \in BOOLEAN : setCommentInternal(b)
  \/ \E f \in Attachments : setCommentFile(f)
  \/ \E c \in FileCategories : setCommentFileCategory(c)
  \/ handlePostComment
  \/ \E i \in 1..Len(postQ), ok \in BOOLEAN : PostUpload(i, ok)
  \/ \E i \in 1..Len(postQ), ok \in BOOLEAN : PostFileInsert(i, ok)
  \/ \E i \in 1..Len(postQ), ok \in BOOLEAN : PostCommentInsert(i, ok)
  \/ \E req \in detailQ : loadOrderDetailsDone(req)
  \/ handleSignOut
  \/ SignIn("c1")
  \/ \E i \in 1..Len(loadQ) : LoadOrdersEval(i)
  \/ \E i \in 1..Len(loadQ) : LoadOrdersDone(i)

SpecPost == InitPost /\ [][NextPost]_vars

(***************************************************************************)
(* Push events with partial payloads                                       *)
(***************************************************************************)
InitPartial == Init /\ ~replicaFull /\ profile.id = "c1"

\* staff changes the status of o1 and posts on it; every event is delivered
StaffActs ==
  \/ \E s \in Statuses : ServerStatusChange("o1", s, TRUE)
  \/ InsertComment("s1", "o1", FALSE, TRUE)
  \/ InsertFile("s1", "o1", TRUE)

\* the payload of an event on its way arrives without one of the columns the handler
\* tests (payload.new is a Partial row)
PayloadStripped ==
  \/ /\ \E k \in 1..Len(ordersChannel), f \in {"id", "status"} :
          /\ ordersChannel[k].new[f] # None
          /\ ordersChannel' = [ordersChannel EXCEPT ![k].new[f] = None]
     /\ UNCHANGED <<commentsChannel, filesChannel>>
  \/ /\ \E k \in 1..Len(commentsChannel) :
          \/ /\ ~NoId(commentsChannel[k].new.id)
             /\ commentsChannel' = [commentsChannel EXCEPT ![k].new.id = 0]
          \/ /\ commentsChannel[k].new.order_id # None
             /\ commentsChannel' = [commentsChannel EXCEPT ![k].new.order_id = None]
     /\ UNCHANGED <<ordersChannel, filesChannel>>
  \/ /\ \E k \in 1..Len(filesChannel) :
          \/ /\ ~NoId(filesChannel[k].new.id)
             /\ filesChannel' = [filesChannel EXCEPT ![k].new.id = 0]
          \/ /\ filesChannel[k].new.order_id # None
             /\ filesChannel' = [filesChannel EXCEPT ![k].new.order_id = None]
     /\ UNCHANGED <<ordersChannel, commentsChannel>>

PartialPayload ==
  /\ PayloadStripped
  /\ UNCHANGED <<nav, detailQ, profile, server, orders, profilesById, refs, inbox, requests, history>>

NextPartial ==
  \/ StaffActs
  \/ PartialPayload
  \/ OrdersPush
  \/ CommentsPush
  \/ FilesPush
  \/ \E i \in 1..Len(loadQ) : LoadOrdersEval(i)
  \/ \E i \in 1..Len(loadQ) : LoadOrdersDone(i)

SpecPartial == InitPartial /\ [][NextPartial]_vars

(***************************************************************************)
(* The periodic pull with failing queries, push connection stalled         *)
(***************************************************************************)
InitCycles == Init /\ ~replicaFull /\ profile.id = "c1"

\* staff changes the status of o1 and posts on it; no push event arrives
ServerActs ==
  \/ \E s \in Statuses : ServerStatusChange("o1", s, FALSE)
  \/ InsertComment("s1", "o1", FALSE, FALSE)
  \/ InsertFile("s1", "o1", FALSE)

\* the queries of the first syncEvents call are answered, some of them with an error
FirstAnswered ==
  \E i \in 1..Len(syncQ), failed \in SUBSET Streams :
    /\ syncQ[i].st = "pending"
    /\ syncQ' = [syncQ EXCEPT ![i] = SyncFailure(@, failed)]
    /\ UNCHANGED <<nav, detailQ, profile, server, orders, profilesById, refs, inbox, channels, loadQ,
                   seedReq, history>>

\* the interval timer fires while fewer than inFlight calls are in flight, and the
\* queries are answered, those of the streams in failed with an error
CycleStart(inFlight, failed) ==
  /\ timer
  /\ Len(syncQ) < inFlight
  /\ syncQ' = Append(syncQ, SyncFailure(PendingSync(lastCommentSeenAt, lastFileSeenAt),
                                        failed))
  /\ UNCHANGED <<nav, detailQ, profile, server, orders, profilesById, refs, inbox, channels, loadQ,
                 seedReq, history>>

Cycle == \E failed \in SUBSET Streams : CycleStart(MaxSync, failed)

NextCycles ==
  \/ ServerActs
  \/ FirstAnswered
  \/ Cycle
  \/ SyncHandled

SpecCycles == InitCycles /\ [][NextCycles]_vars

(***************************************************************************)
(* The interval timer: cycles that succeed, fail or overlap                *)
(***************************************************************************)
\* the timer fires whether or not MaxSync earlier calls are still in flight; a cycle
\* succeeds or fails as a whole
TimerFires == \E failed \in {{}, Streams} : CycleStart(MaxSync + 1, failed)

NextTimer ==
  \/ InsertComment("s1", "o1", FALSE, FALSE)
  \/ FirstAnswered
  \/ TimerFires
  \/ SyncHandled

\* setInterval keeps firing; a query that was sent is answered and the answer handled
SpecTimer ==
  /\ InitCycles
  /\ [][NextTimer]_vars
  /\ WF_vars(TimerFires)
  /\ WF_vars(FirstAnswered)
  /\ WF_vars(SyncHandled)

(***************************************************************************)
(* The comment and file feed across sign-out and the next sign-in          *)
(***************************************************************************)
\* the first session is a staff session
InitSession == InitFeed /\ profile.id = "s1"

\* comments and files on o1, posted at any time; an insert reaches a channel only while
\* the viewer is subscribed
PostsAnyTime ==
  \/ \E x \in Posts, d \in BOOLEAN :
       x.on = "o1" /\ ~x.internal /\ (d => SignedIn) /\ InsertComment(x.by, x.on, FALSE, d)
  \/ \E x \in Posts, d \in BOOLEAN :
       x.on = "o1" /\ ~x.internal /\ (d => SignedIn) /\ InsertFile(x.by, x.on, d)

\* the 5 s timer runs while the sync effect is mounted
TimerTick == SignedIn /\ SyncTick

NextSession ==
  \/ PostsAnyTime
  \/ CommentsPush
  \/ FilesPush
  \/ TimerTick
  \/ \E i \in 1..Len(syncQ) : SyncEval(i)
  \/ \E i \in 1..Len(syncQ) : syncEvents(i)
  \/ \E i \in 1..Len(syncQ) : syncEventsCancelled(i)
  \/ SeedEval
  \/ seedStatusMap
  \/ seedStatusMapCancelled
  \/ \E i \in 1..Len(loadQ) : LoadOrdersEval(i)
  \/ \E i \in 1..Len(loadQ) : LoadOrdersDone(i)
  \/ handleSignOut
  \/ \E v \in {"c1", "s1"} : SignIn(v)

SpecSession == InitSession /\ [][NextSession]_vars

(***************************************************************************)
(* Opening notifications while orders load                                 *)
(***************************************************************************)
\* a session whose first loadOrders is still in flight when two notifications (a comment
\* on o1, a file on o2) are already in the inbox
InitOpen ==
  /\ srvOrders = InitialOrders
  /\ srvComments = <<>>
  /\ srvFiles = <<>>
  /\ replicaFull = FALSE
  /\ srvRoles = InitialRoles
  /\ statusLog = FirstStatuses(srvOrders)
  /\ \E v \in {"c1", "s1"} :
       /\ profile = ProfileRow(v)
       /\ orderStatusMap = MapOfRows(SyncOrdersQuery(ProfileRow(v), InitialOrders))
  /\ orders = <<>>
  /\ profilesById = Users
  /\ knownCommentIds = {}
  /\ knownFileIds = {}
  /\ lastCommentSeenAt = 0
  /\ lastFileSeenAt = 0
  /\ notifSeq = 2
  /\ notifications = Pushed(notifSeq)
  /\ ordersChannel = <<>>
  /\ commentsChannel = <<>>
  /\ filesChannel = <<>>
  /\ syncQ = <<>>
  /\ loadQ = <<Pending>>
  /\ seedReq = NoRequest
  /\ updates = 0
  /\ changes = [o \in Orders |-> 0]
  /\ selfChanges = [o \in Orders |-> 0]
  /\ owed = [o \in Orders |-> FALSE]
  /\ feedLog = EmptyLog
  /\ selectedOrderId = None
  /\ fetchQ = <<>>
  /\ fetched = [o \in Orders |-> 0]
  /\ sessions = 1
  /\ toasts = <<>>
  /\ timer = TRUE
  /\ NothingOpen

\* the user clicks an entry of the inbox; the single-order query may fail
Open ==
  \E k \in 1..Len(notifications), ok \in BOOLEAN :
    /\ \A o \in Orders : fetched[o] < MaxFetches
    /\ openNotification(notifications[k], ok)

NextOpen ==
  \/ Open
  \/ \E i \in 1..Len(fetchQ) : openNotificationFetched(i)
  \/ \E i \in 1..Len(loadQ) : LoadOrdersEval(i)
  \/ \E i \in 1..Len(loadQ) : LoadOrdersDone(i)
  \/ \E o \in Updated, s \in Statuses : ServerStatusChange(o, s, TRUE)
  \/ OrdersPush

SpecOpen == InitOpen /\ [][NextOpen]_vars

(***************************************************************************)
(* Responses of one session that arrive in the next                        *)
(***************************************************************************)
\* faulty variant: the state is reset although the sign-out failed
handleSignOutFailed_ResetsAnyway ==
  /\ SignedIn
  /\ Len(toasts) < MaxFailures
  /\ toasts' = addToast(toasts, "error", "Logout failed")
  /\ orders' = <<>>
  /\ notifications' = <<>>
  /\ orderStatusMap' = EmptyMap
  /\ UNCHANGED <<selectedOrderId, fetchQ, fetched, sessions, timer, view, detailQ, profile, server,
                 profilesById, knownCommentIds, knownFileIds, lastCommentSeenAt, lastFileSeenAt,
                 notifSeq, channels, requests, history>>

\* handleSignOut when auth.signOut() returns an error: addToast and return
handleSignOutFailed ==
  /\ SignedIn
  /\ Len(toasts) < MaxFailures
  /\ toasts' = addToast(toasts, "error", "Logout failed")
  /\ UNCHANGED <<selectedOrderId, fetchQ, fetched, sessions, timer, view, detailQ, profile, server,
                 orders, profilesById, refs, inbox, channels, requests, history>>

\* the user opens notifications while orders load and reload, signs out (a first attempt
\* may fail) and a client signs in on the same page
NextSwitch ==
  \/ Open
  \/ \E i \in 1..Len(fetchQ) : openNotificationFetched(i)
  \/ \E i \in 1..Len(loadQ) : LoadOrdersEval(i)
  \/ \E i \in 1..Len(loadQ) : LoadOrdersDone(i)
  \/ \E o \in Updated, s \in Statuses : ServerStatusChange(o, s, SignedIn)
  \/ OrdersPush
  \/ handleSignOutFailed
  \/ handleSignOut
  \/ \E v \in {"c1", "c2"} : SignIn(v)

SpecSwitch == InitOpen /\ [][NextSwitch]_vars

(***************************************************************************)
(* The order list under status events and reloads                          *)
(***************************************************************************)
InitReload == Init /\ ~replicaFull

\* a status changes on the server and its event reaches the subscriber
StatusEvent ==
  \E o \in Orders, s \in Statuses :
    Len(ordersChannel) < MaxPush /\ ServerStatusChange(o, s, TRUE)

OrdersAnswered == \E i \in 1..Len(loadQ) : LoadOrdersEval(i)

OrdersHandled == \E i \in 1..Len(loadQ) : LoadOrdersDone(i)

NextReload ==
  \/ StatusEvent
  \/ OrdersPush
  \/ OrdersAnswered
  \/ OrdersHandled

\* every event is handled, every query is answered and every response is handled
SpecReload ==
  /\ InitReload
  /\ [][NextReload]_vars
  /\ WF_vars(OrdersPush)
  /\ WF_vars(OrdersAnswered)
  /\ WF_vars(OrdersHandled)

(***************************************************************************)
(* Updates of public.profiles under its two update policies                *)
(***************************************************************************)
\* check (role in ('admin','staff','client'))
Roles == {"admin", "staff", "client"}

\* policy profiles_update_own: using and with check are both auth.uid() = id
profiles_update_own(uid, id) == uid = id

\* policy profiles_update_admin: using; its with check is true
profiles_update_admin(uid) == RoleOf(uid) = "admin"

\* update public.profiles set role = ... where id = ..., sent by user uid: the row must
\* pass the using expression of one policy and the new row the with check of one
UpdateProfile(uid, id, role) ==
  /\ profiles_update_own(uid, id) \/ profiles_update_admin(uid)
  /\ profiles_update_own(uid, id) \/ TRUE
  /\ srvRoles' = [srvRoles EXCEPT ![id] = role]
  /\ UNCHANGED <<nav, detailQ, profile, srvOrders, srvComments, srvFiles, replicaFull, statusLog, orders,
                 profilesById, refs, inbox, channels, requests, history>>

\* any user sends updates; the viewer signs out and in again (loadProfile reads the row)
InitRoles == Init /\ ~replicaFull

NextRoles ==
  \/ \E uid \in Users, id \in Users, role \in Roles : UpdateProfile(uid, id, role)
  \/ handleSignOut
  \/ \E v \in Viewers : SignIn(v)

SpecRoles == InitRoles /\ [][NextRoles]_vars

(***************************************************************************)
(* Claims about the order-status feed                                      *)
(***************************************************************************)
IsStatusNotification(n) == n.title = StatusChangedTitle

\* the "Order Status Changed" entries of an inbox that reference order o
StatusNotifs(notifs, o) ==
  Cardinality({k \in 1..Len(notifs) : IsStatusNotification(notifs[k]) /\ notifs[k].order_id = o})

\* the step is the ordersChannel handler run on an event that carries an id and a status
PushStep(ev) ==
  /\ ev = Head(ordersChannel)
  /\ ordersChannel' = Tail(ordersChannel)
  /\ ev.eventType \in {"UPDATE", "INSERT"}
  /\ ev.new.id # None
  /\ ev.new.status # None
  /\ OrdersPush

\* the step is the handling of the response of the i-th syncEvents call in flight
PullStep(i) ==
  /\ syncQ[i].st = "done"
  /\ syncQ' = Remove(syncQ, i)
  /\ syncEvents(i)

\* C2: an order whose status changed once on the server, while the map held a status
\* for it and the viewer was eligible, never has more than one "Order Status Changed"
\* notification for that change (same order, same from and to) in the inbox, whatever
\* the interleaving of the push event, the pull responses, the seed snapshot and the
\* order reloads.
C2_AtMostOnePerChange ==
  \A o \in Orders :
    (changes[o] = 1 /\ owed[o])
    => \A j, k \in 1..Len(notifications) :
         ( /\ IsStatusNotification(notifications[j]) /\ notifications[j].order_id = o
           /\ IsStatusNotification(notifications[k]) /\ notifications[k].order_id = o
           /\ notifications[j].message.from = notifications[k].message.from
           /\ notifications[j].message.to = notifications[k].message.to )
         => j = k

\* nothing is in flight: no push event waits and every query has been answered and handled
Settled ==
  /\ ordersChannel = <<>>
  /\ syncQ = <<>>
  /\ loadQ = <<>>
  /\ seedReq.st = "none"

\* C3: the only status change of an order, made by another user while the viewer was
\* eligible and the map held a status for the order, has produced an "Order Status
\* Changed" notification by the time nothing is in flight any more and the map holds the
\* server's status (from then on no pull can detect it), push event delivered or not.
C3_NotifiedOnceSettled ==
  \A o \in Orders :
    ( /\ changes[o] = 1 /\ selfChanges[o] = 0 /\ owed[o]
      /\ Settled
      /\ orderStatusMap[o] = ServerStatusOf(o) )
    => StatusNotifs(notifications, o) >= 1

C5_OwnershipGate ==
  [][ /\ (profile.role = "client"
            => \A k \in 1..Len(notifications') :
                 IsStatusNotification(notifications'[k])
                 => OrderClient(notifications'[k].order_id) = profile.id)
      /\ \A ev \in Range(ordersChannel) :
           ( /\ PushStep(ev) /\ IsStaffTier(profile.role)
             /\ TransitionDetected(previousStatus(orderStatusMap, ev.old, ev.new), ev.new.status) )
           => StatusNotifs(notifications', ev.new.id) = StatusNotifs(notifications, ev.new.id) + 1
      /\ \A i \in 1..Len(syncQ) : \A k \in 1..Len(syncQ[i].orders) :
           ( /\ PullStep(i) /\ IsStaffTier(profile.role)
             /\ TransitionDetected(orderStatusMap[syncQ[i].orders[k].id], syncQ[i].orders[k].status) )
           => StatusNotifs(notifications', syncQ[i].orders[k].id)
                = StatusNotifs(notifications, syncQ[i].orders[k].id) + 1 ]_vars

\* a client that is not the owner has handled a status change of o1 and got nothing,
\* although the event carried a different old status
C5_Witness ==
  /\ profile.id = "c2"
  /\ replicaFull
  /\ changes["o1"] = 1
  /\ orderStatusMap["o1"] = ServerStatusOf("o1")
  /\ notifications = <<>>

\* C6: right after an order event with an id and a status is handled, by push or by
\* pull, the status map holds that event's status for the order, notification or not;
\* so of two racing events the one handled last decides the recorded status.
C6_MapHoldsEventStatus ==
  [][ /\ \A ev \in Range(ordersChannel) :
           PushStep(ev) => orderStatusMap'[ev.new.id] = ev.new.status
      /\ \A i \in 1..Len(syncQ) : \A k \in 1..Len(syncQ[i].orders) :
           PullStep(i) => orderStatusMap'[syncQ[i].orders[k].id] = syncQ[i].orders[k].status ]_vars

\* a late pull response was handled after the push event of the change: the map holds
\* the older status and the inbox reports the change backwards
C6_Witness ==
  /\ changes["o1"] = 1
  /\ ServerStatusOf("o1") = "in_progress"
  /\ orderStatusMap["o1"] = "not_started"
  /\ Len(notifications) = 2
  /\ notifications[1].message.from = "In Progress"
  /\ notifications[1].message.to = "Not Started"

\* C10: an order whose status only the viewer has changed has no "Order Status
\* Changed" notification in the viewer's inbox.
C10_NoSelfNotification ==
  \A o \in Orders :
    (changes[o] >= 1 /\ changes[o] = selfChanges[o]) => StatusNotifs(notifications, o) = 0

(***************************************************************************)
(* Claims about the comment and file feed                                  *)
(***************************************************************************)
\* the entries pushNotification added in this step (the inbox is newest first)
Added == notifSeq' - notifSeq

\* C1: within a session every comment id and every file id passes the dedup gate at
\* most once, exactly once when it was delivered at all, and causes at most one
\* pushNotification call, however often and in whichever order the push channel and the
\* periodic pull deliver it.
C1_NewExactlyOnce ==
  /\ \A i \in CommentIds :
       /\ feedLog.c[i].new <= 1
       /\ feedLog.c[i].pushed <= 1
       /\ (feedLog.c[i].viaPush \/ feedLog.c[i].viaPull) => feedLog.c[i].new = 1
       /\ i \in knownCommentIds <=> feedLog.c[i].new = 1
  /\ \A i \in FileIds :
       /\ feedLog.f[i].new <= 1
       /\ feedLog.f[i].pushed <= 1
       /\ (feedLog.f[i].viaPush \/ feedLog.f[i].viaPull) => feedLog.f[i].new = 1
       /\ i \in knownFileIds <=> feedLog.f[i].new = 1

\* a file and a comment have each arrived by push and by pull, and each was new once
\* and notified once
C1_Witness ==
  /\ \E i \in FileIds :
       feedLog.f[i] = [new |-> 1, pushed |-> 1, viaPush |-> TRUE, viaPull |-> TRUE]
  /\ \E i \in CommentIds :
       feedLog.c[i] = [new |-> 1, pushed |-> 1, viaPush |-> TRUE, viaPull |-> TRUE]

\* C7: the inbox of a client never holds a "Client Message" notification, and its
\* "New Comment" notifications name no author, by push or by pull.
C7_ClientNeverSeesAuthor ==
  profile.role = "client"
  => \A k \in 1..Len(notifications) :
       /\ notifications[k].title # ClientMessageTitle
       /\ notifications[k].title = NewCommentTitle => notifications[k].message.who = None

\* a client whose profiles are loaded was pushed a comment written by staff and one
\* written by another client, and both were notified as "New Comment"
C7_Witness ==
  /\ profile.role = "client"
  /\ profilesById = Users
  /\ Len(notifications) = 2
  /\ \A k \in 1..2 : notifications[k].title = NewCommentTitle
  /\ \E i, j \in 1..Len(srvComments) :
       /\ srvComments[i].author_id = "s1" /\ srvComments[j].author_id = "c2"
       /\ feedLog.c[srvComments[i].id].pushed = 1 /\ ~feedLog.c[srvComments[i].id].viaPull
       /\ feedLog.c[srvComments[j].id].pushed = 1 /\ ~feedLog.c[srvComments[j].id].viaPull

\* C8: for a staff or admin viewer who has the author's profile loaded, the step in
\* which a comment of a client is first handled, by the push handler or by the pull,
\* adds a "Client Message" notification that names the author.
C8_ClientMessageOnEitherPath ==
  [][ IsStaffTier(profile.role)
      => \A i \in 1..Len(srvComments) :
           ( /\ RoleOf(srvComments[i].author_id) = "client"
             /\ srvComments[i].author_id \in profilesById
             /\ srvComments[i].id \notin knownCommentIds
             /\ srvComments[i].id \in knownCommentIds' )
           => \E k \in 1..Added :
                /\ notifications'[k].title = ClientMessageTitle
                /\ notifications'[k].order_id = srvComments[i].order_id
                /\ notifications'[k].message.who = DisplayName(ProfileRow(srvComments[i].author_id))
    ]_vars

\* C9: a comment whose author is the viewer and a file whose uploader is the viewer
\* never cause a pushNotification call, by push or by pull, in any order of delivery.
C9_SelfAuthoredNeverNotifies ==
  /\ \A i \in 1..Len(srvComments) :
       srvComments[i].author_id = profile.id => feedLog.c[srvComments[i].id].pushed = 0
  /\ \A i \in 1..Len(srvFiles) :
       srvFiles[i].uploaded_by = profile.id => feedLog.f[srvFiles[i].id].pushed = 0

\* the viewer's own comment and own file have each arrived by push and by pull and
\* passed the gate, and the inbox is empty
C9_Witness ==
  /\ \E i \in 1..Len(srvComments) :
       /\ srvComments[i].author_id = profile.id
       /\ feedLog.c[srvComments[i].id] = [new |-> 1, pushed |-> 0, viaPush |-> TRUE, viaPull |-> TRUE]
  /\ \E i \in 1..Len(srvFiles) :
       /\ srvFiles[i].uploaded_by = profile.id
       /\ feedLog.f[srvFiles[i].id] = [new |-> 1, pushed |-> 0, viaPush |-> TRUE, viaPull |-> TRUE]
  /\ notifications = <<>>

(***************************************************************************)
(* Claims about the notification inbox                                     *)
(***************************************************************************)
\* C11: the inbox never holds more than 50 entries, whatever pushNotification,
\* markAllNotificationsRead, openNotification and session resets did before
C11_InboxAtMostCap == Len(notifications) <= InboxCap

\* more notifications were pushed in the session than the inbox holds
C11_Witness == notifSeq > InboxCap /\ Len(notifications) = InboxCap

\* C12: the inbox is the (up to) 50 most recently pushed notifications of the session,
\* newest first: the k-th entry is the k-th latest pushNotification call with the
\* arguments of that call, so a push onto a full inbox drops the oldest entry only
C12_MostRecentNewestFirst ==
  /\ Len(notifications) = Min(notifSeq, InboxCap)
  /\ \A k \in 1..Len(notifications) :
       LET n == notifSeq - k + 1
       IN  /\ notifications[k].id = n
           /\ notifications[k].created_at = n
           /\ notifications[k].title = NthNote(n).title
           /\ notifications[k].message = NthNote(n).message
           /\ notifications[k].order_id = NthNote(n).order_id

\* a push onto a full inbox happened: the first call's entry is gone, the second is last
C12_Witness ==
  /\ notifSeq = InboxCap + 1
  /\ Len(notifications) = InboxCap
  /\ notifications[1].id = InboxCap + 1
  /\ notifications[InboxCap].id = 2

\* C13: markAllNotificationsRead sets every entry read, a second call changes nothing,
\* and neither call changes the length, the order or another field of an entry
C13_MarkAllIdempotent ==
  LET once == MarkAllRead(notifications)
      twice == MarkAllRead(once)
  IN  /\ twice = once
      /\ Len(once) = Len(notifications)
      /\ \A k \in 1..Len(once) :
           /\ once[k].read
           /\ [once[k] EXCEPT !.read = notifications[k].read] = notifications[k]

\* a full inbox was marked read as a whole (more entries are read than were opened)
C13_Witness ==
  /\ Len(notifications) = InboxCap
  /\ unreadNotificationCount = 0

\* C14: openNotification marks the opened entry read and changes no other entry, and
\* no other field of the opened entry
C14_OpenMarksOnlyOpened ==
  \A k \in 1..Len(notifications) :
    LET after == MarkRead(notifications, notifications[k].id)
    IN  /\ Len(after) = Len(notifications)
        /\ after[k].read
        /\ [after[k] EXCEPT !.read = notifications[k].read] = notifications[k]
        /\ \A j \in 1..Len(after) : j # k => after[j] = notifications[j]

\* the second entry was opened while its neighbours stay unread, and its order is shown
C14_Witness ==
  /\ Len(notifications) >= 3
  /\ notifications[2].read
  /\ ~notifications[1].read
  /\ ~notifications[3].read
  /\ selectedOrderId = notifications[2].order_id

\* the on-demand fetches of order o that openNotification has issued and not yet handled
InFlight(o) == Cardinality({i \in 1..Len(fetchQ) : fetchQ[i].order_id = o})

\* C15: an order that is not loaded is fetched once: while its fetch is in flight, opening
\* the same notification or another one for the same order issues no second fetch
C15_OneFetchInFlight == \A o \in Orders : InFlight(o) <= 1

\* C16: the loaded order collection never holds two entries with the same id, whatever
\* the interleaving of full reloads, push-triggered reloads and merged on-demand fetches
C16_NoDuplicateOrders ==
  \A i, j \in 1..Len(orders) : orders[i].id = orders[j].id => i = j

\* two on-demand fetches of one order were merged, and the first load and a
\* push-triggered reload were applied
C16_Witness ==
  /\ \E o \in Orders : fetched[o] >= 2 /\ HasOrder(orders, o)
  /\ fetchQ = <<>>
  /\ loadQ = <<>>
  /\ updates > 0
  /\ ordersChannel = <<>>

\* C17: when the order of an opened notification is not loaded and its fetch brings no
\* row, the selected order is not changed and the notification stays read
C17_FailedFetchDoesNotNavigate ==
  [][\A i \in 1..Len(fetchQ) :
       (/\ openNotificationFetched(i)
        /\ fetchQ[i].data.id = None
        /\ ~HasOrder(orders, fetchQ[i].order_id))
       => /\ selectedOrderId' = selectedOrderId
          /\ \A k \in 1..Len(notifications) :
               notifications[k].id = fetchQ[i].item => notifications'[k].read]_vars

(***************************************************************************)
(* Claims about sign-out and the next session                              *)
(***************************************************************************)
\* the sync state that the feed handlers write
FeedState ==
  <<notifications, knownCommentIds, knownFileIds, lastCommentSeenAt, lastFileSeenAt,
    orderStatusMap>>

C19_ResetComplete ==
  ~SignedIn =>
    /\ knownCommentIds = {}
    /\ knownFileIds = {}
    /\ orderStatusMap = EmptyMap
    /\ lastCommentSeenAt = 0
    /\ lastFileSeenAt = 0

\* C20: within a session the known comment ids and the known file ids only grow: a step
\* that is not a session reset removes no id from either set
C20_KnownIdsOnlyGrow ==
  [][(SignedIn /\ SignedIn' /\ sessions' = sessions)
     => /\ knownCommentIds \subseteq knownCommentIds'
        /\ knownFileIds \subseteq knownFileIds']_vars

\* both sets hold an id, and one comment came through the gate on both paths
C20_Witness ==
  /\ SignedIn
  /\ knownFileIds # {}
  /\ \E i \in knownCommentIds : feedLog.c[i].viaPush /\ feedLog.c[i].viaPull

(***************************************************************************)
(* Claims about the cursors, failed queries and the timer                  *)
(***************************************************************************)
\* the largest created_at among the rows that syncEvents has gone through, 0 if none
PulledMax(rows, log) ==
  LET seen == {k \in 1..Len(rows) : log[rows[k].id].viaPull}
  IN  IF seen = {} THEN 0
      ELSE rows[CHOOSE k \in seen : \A j \in seen : rows[j].created_at <= rows[k].created_at].created_at

\* C21: once pull results have been processed, each cursor is the largest created_at
\* among the rows of its stream that the pull has gone through in the session, the rows
\* whose id was already known included
C21_CursorIsMaxProcessed ==
  /\ PulledMax(srvComments, feedLog.c) > 0
       => lastCommentSeenAt = PulledMax(srvComments, feedLog.c)
  /\ PulledMax(srvFiles, feedLog.f) > 0
       => lastFileSeenAt = PulledMax(srvFiles, feedLog.f)

\* comment / file k is on the server, the viewer may read it and did not create it
OwedComment(k) ==
  /\ k <= Len(srvComments)
  /\ comments_select_by_role(profile.id, srvComments[k])
  /\ ~IsSelf(profile, srvComments[k].author_id)

OwedFile(k) ==
  /\ k <= Len(srvFiles)
  /\ order_files_select_by_role(profile.id, srvFiles[k])
  /\ ~IsSelf(profile, srvFiles[k].uploaded_by)

C23_OtherStreamsStillApply ==
  [][\A i \in 1..Len(syncQ) :
       (syncEvents(i) /\ syncQ[i].err # {}) =>
         /\ \A k \in 1..Len(syncQ[i].comments) :
              LET row == syncQ[i].comments[k]
              IN  /\ row.id \in knownCommentIds'
                  /\ (row.id \notin knownCommentIds /\ ~IsSelf(profile, row.author_id))
                       => feedLog'.c[row.id].pushed = feedLog.c[row.id].pushed + 1
         /\ \A k \in 1..Len(syncQ[i].files) :
              LET row == syncQ[i].files[k]
              IN  /\ row.id \in knownFileIds'
                  /\ (row.id \notin knownFileIds /\ ~IsSelf(profile, row.uploaded_by))
                       => feedLog'.f[row.id].pushed = feedLog.f[row.id].pushed + 1
         /\ \A k \in 1..Len(syncQ[i].orders) :
              orderStatusMap'[syncQ[i].orders[k].id] = syncQ[i].orders[k].status]_vars

\* a comment and a file were notified although the orders query has failed in every
\* cycle so far (no status has been recorded)
C23_Witness ==
  /\ syncQ = <<>>
  /\ orderStatusMap = EmptyMap
  /\ feedLog.c[1].pushed = 1
  /\ feedLog.f[1].pushed = 1

\* C24: a sync response that carries an error for some stream adds a toast
C24_FailureIsReported ==
  [][\A i \in 1..Len(syncQ) :
       (syncEvents(i) /\ syncQ[i].err # {}) => Len(toasts') > Len(toasts)]_vars

\* C25: while the session is active a new sync cycle is started again and again,
\* whether the earlier cycles succeeded, failed or are still in flight
C25_TimerKeepsFiring == []<><<TimerFires>>_vars

\* the timer has fired while an earlier cycle, one that failed, was not yet handled
C25_Witness ==
  /\ Len(syncQ) = 2
  /\ syncQ[1].st = "done" /\ syncQ[1].err = Streams
  /\ syncQ[2].st = "done"
  /\ timer

\* the payload lacks a column that the handler requires
LacksIdOrOrder(row) == NoId(row.id) \/ row.order_id = None

LacksIdOrStatus(row) == row.id = None \/ row.status = None

OrdersReloaded == \E i \in 1..Len(loadQ) : LoadOrdersDone(i)

OrderMerged == \E i \in 1..Len(fetchQ) : openNotificationFetched(i)

\* C27: a step that reloads or merges the order list is no step of the sync subsystem
\* and leaves the known-id sets and the status map as they are
C27_OnlySyncWritesSyncState ==
  [][(OrdersReloaded \/ OrderMerged)
     => UNCHANGED <<knownCommentIds, knownFileIds, orderStatusMap>>]_vars

\* the position of the entry with this id in an inbox, 0 if there is none
PositionOf(notifs, id) ==
  IF \E j \in 1..Len(notifs) : notifs[j].id = id
    THEN CHOOSE j \in 1..Len(notifs) : notifs[j].id = id
    ELSE 0

\* C28: an entry of the inbox keeps its id, title, message, creation time and order
\* reference, and its read flag goes from false to true only; it leaves the inbox only
\* as the oldest entry of a full inbox when a new one is pushed, or at the session reset
C28_EntriesOnlyGetRead ==
  [][\A k \in 1..Len(notifications) :
       LET n == notifications[k]
           j == PositionOf(notifications', n.id)
       IN  IF j > 0
             THEN /\ [notifications'[j] EXCEPT !.read = n.read] = n
                  /\ n.read => notifications'[j].read
             ELSE \/ notifications' = <<>> /\ ~SignedIn'
                  \/ /\ k = InboxCap
                     /\ Len(notifications') = InboxCap
                     /\ PositionOf(notifications, notifications'[1].id) = 0]_vars

\* the oldest entry of a full inbox was opened, and entries have been pushed out since
C28_Witness ==
  /\ notifSeq > InboxCap
  /\ Len(notifications) = InboxCap
  /\ notifications[InboxCap].read
  /\ ~notifications[InboxCap - 1].read

RECURSIVE CountUnread(_)
CountUnread(notifs) ==
  IF notifs = <<>> THEN 0
  ELSE (IF Head(notifs).read THEN 0 ELSE 1) + CountUnread(Tail(notifs))

\* C30: the unread count is the number of inbox entries with read = false, it lies between
\* 0 and the length of the inbox, which is 50 at most, and it is 0 right after
\* markAllNotificationsRead
C30_UnreadCountMatches ==
  /\ [](/\ unreadNotificationCount = CountUnread(notifications)
        /\ 0 <= unreadNotificationCount
        /\ unreadNotificationCount <= Len(notifications)
        /\ Len(notifications) <= InboxCap)
  /\ [][markAllNotificationsRead => unreadNotificationCount' = 0]_vars

\* a full inbox was marked read and one more entry has come in since
C30_Witness ==
  /\ Len(notifications) = InboxCap
  /\ unreadNotificationCount = 1
  /\ ~notifications[1].read

(***************************************************************************)
(* Claims about what a status notification says, access and the detail view *)
(***************************************************************************)
\* entry n is the "Order Status Changed" notification for order o going from prev to next
NamesTransition(n, o, prev, next) ==
  /\ n.title = "Order Status Changed"
  /\ n.order_id = o
  /\ n.message.from = StatusLabel(prev)
  /\ n.message.to = StatusLabel(next)
  /\ ~n.read

\* C31: a status-change notification is titled "Order Status Changed", carries the id of
\* the order of the event, names as 'from' the status the map held for that order just
\* before the event and as 'to' the status in the event; an event for an eligible viewer
\* whose status differs from the recorded one adds exactly one such notification
C31_NotificationNamesTransition ==
  [][ /\ \A ev \in Range(ordersChannel) :
           PushStep(ev) =>
             /\ ( /\ orderStatusMap[ev.new.id] \notin {None, ev.new.status}
                  /\ isClientOwn(profile, ev.new.client_id) )
                => /\ Added = 1
                   /\ NamesTransition(notifications'[1], ev.new.id,
                                       orderStatusMap[ev.new.id], ev.new.status)
             /\ \A j \in 1..Added :
                  /\ IsStatusNotification(notifications'[j])
                  /\ notifications'[j].order_id = ev.new.id
                  /\ notifications'[j].message.to = StatusLabel(ev.new.status)
      /\ \A i \in 1..Len(syncQ) :
           PullStep(i) =>
             /\ \A k \in 1..Len(syncQ[i].orders) :
                  LET row == syncQ[i].orders[k]
                  IN  ( /\ orderStatusMap[row.id] \notin {None, row.status}
                        /\ isClientOwn(profile, row.client_id) )
                      => Cardinality({j \in 1..Added :
                                        NamesTransition(notifications'[j], row.id,
                                                        orderStatusMap[row.id], row.status)}) = 1
             /\ \A j \in 1..Added :
                  IsStatusNotification(notifications'[j])
                  => \E k \in 1..Len(syncQ[i].orders) :
                       NamesTransition(notifications'[j], syncQ[i].orders[k].id,
                                       orderStatusMap[syncQ[i].orders[k].id],
                                       syncQ[i].orders[k].status) ]_vars

\* the map was seeded with not_started for o1, the event reported in_progress, and the
\* client that owns o1 has the one notification for it
C31_Witness ==
  /\ profile.id = "c1"
  /\ changes["o1"] = 1
  /\ seedReq.st = "none"
  /\ Len(notifications) = 1
  /\ NamesTransition(notifications[1], "o1", "not_started", "in_progress")
  /\ orderStatusMap["o1"] = "in_progress"

\* order o held the status labelled from on the server, and later the one labelled to
HeldInOrder(o, from, to) ==
  \E i, j \in 1..Len(statusLog[o]) :
    /\ i < j
    /\ StatusLabel(statusLog[o][i]) = from
    /\ StatusLabel(statusLog[o][j]) = to

\* C36: every "Order Status Changed" notification in the inbox names a transition that
\* happened: the order held the 'from' status on the server and later the 'to' status
C36_OnlyRealTransitions ==
  \A k \in 1..Len(notifications) :
    IsStatusNotification(notifications[k])
    => HeldInOrder(notifications[k].order_id, notifications[k].message.from,
                   notifications[k].message.to)

\* C32: only an admin changes a role: an update of public.profiles that the policies let
\* through and that changes the role of some profile is sent by a user whose role is admin
C32_OnlyAdminChangesRole ==
  [][\A uid \in Users, id \in Users, role \in Roles :
       (UpdateProfile(uid, id, role) /\ srvRoles'[id] # srvRoles[id])
       => srvRoles[uid] = "admin"]_vars

\* C33: while the viewer's role is client, every order of the loaded order list has the
\* viewer's id as client_id
C33_ClientHoldsOwnOrders ==
  profile.role = "client" =>
    \A k \in 1..Len(orders) : orders[k].client_id = profile.id

\* C34: internal comments do not reach a client: while the viewer's role is client the
\* comments of the detail view hold no comment with is_internal = true, and no
\* notification was pushed for an internal comment
C34_NoInternalForClient ==
  profile.role = "client" =>
    /\ \A k \in 1..Len(comments) : ~comments[k].is_internal
    /\ \A k \in CommentIds :
         (k <= Len(srvComments) /\ srvComments[k].is_internal) => feedLog.c[k].pushed = 0

\* C35: from some moment on the loaded order list is what the viewer may select from
\* the orders table, with the current statuses
C35_OrdersConverge == <>[](orders = LoadOrdersQuery(profile, srvOrders))

\* C37: while an order is open and no detail load is in flight, every comment and every
\* file of the detail view belongs to the order that is open
C37_DetailsOfSelectedOrder ==
  (selectedOrder(orders, selectedOrderId) # None /\ detailQ = {}) =>
    /\ \A k \in 1..Len(comments) : comments[k].order_id = selectedOrderId
    /\ \A k \in 1..Len(files) : files[k].order_id = selectedOrderId

\* C38: every payload that a call of handlePostComment started by a viewer outside the
\* staff tier sends has is_internal = false, whatever the draft flag of the call is, and
\* the comments table holds no internal comment whose author has the client role
C38_ClientCommentsNeverInternal ==
  /\ \A i \in 1..Len(postQ) :
       ~IsStaffTier(postQ[i].role) => ~Payload(postQ[i]).is_internal
  /\ \A k \in 1..Len(srvComments) :
       RoleOf(srvComments[k].author_id) = "client" => ~srvComments[k].is_internal

\* a client's call is about to send its payload while the draft flag, left set by the
\* staff session before, is part of the call
C38_Witness ==
  /\ profile.role = "client"
  /\ \E i \in 1..Len(postQ) :
       /\ postQ[i].author_id = profile.id
       /\ postQ[i].role = "client"
       /\ postQ[i].internal
       /\ postQ[i].stage = "comment"

\* a step in which a call of handlePostComment ends after its upload or its
\* order_files insert came back with an error
AttachmentStepFails ==
  /\ toasts' # toasts
  /\ toasts'[Len(toasts')].message \in {"Attachment upload failed", "Attachment save failed"}

ClearedDraft ==
  /\ commentText' = ""
  /\ commentInternal' = FALSE
  /\ commentFile' = None
  /\ commentFileCategory' = "document"

\* C40: a step in which the upload or the file-record insert of a call fails inserts no
\* comment, keeps the four fields of the draft and ends the call; a call with an
\* attachment inserts its comment only when its upload and its file-record insert have
\* succeeded and the file row is on the server; a step of a call changes the draft only
\* when it inserts the comment, and then it resets the draft
C40_AttachmentBeforeComment ==
  [][/\ AttachmentStepFails =>
          /\ srvComments' = srvComments
          /\ UNCHANGED draft
          /\ Len(postQ') = Len(postQ) - 1
     /\ \A i \in 1..Len(postQ) :
          (PostCommentInsert(i, TRUE) /\ postQ[i].file # None) =>
            /\ postQ[i].uploaded /\ postQ[i].saved
            /\ \E k \in 1..Len(srvFiles) :
                 /\ srvFiles[k].order_id = postQ[i].order_id
                 /\ srvFiles[k].file_name = postQ[i].file
     /\ (postQ' # postQ /\ draft' # draft) =>
          /\ Len(srvComments') = Len(srvComments) + 1
          /\ ClearedDraft]_vars

\* a first call lost its attachment step and left the draft in the form; the next call
\* saved the file, inserted the comment and reset the form
C40_Witness ==
  /\ Len(toasts) = 2
  /\ toasts[1].message \in {"Attachment upload failed", "Attachment save failed"}
  /\ toasts[2].message = "Comment added"
  /\ Len(srvFiles) = 1
  /\ Len(srvComments) = 1
  /\ commentText = "" /\ commentFile = None

\* the session state that a failed sign-out leaves alone
SessionState ==
  <<profile, orders, selectedOrderId, notifications, knownCommentIds, knownFileIds,
    orderStatusMap, lastCommentSeenAt, lastFileSeenAt>>

\* C39: a step that ends with the toast of a failed sign-out adds that one toast and
\* leaves the profile, the loaded orders, the selected order, the inbox, the known-id
\* sets, the status map and the cursors as they are
C39_FailedSignOutKeepsSession ==
  [][(toasts' # toasts /\ toasts'[Len(toasts')].message = "Logout failed")
     => /\ toasts' = Append(toasts, [type |-> "error", message |-> "Logout failed"])
        /\ UNCHANGED SessionState]_vars

\* the sign-out of a session with orders loaded, an order open and an inbox has failed
C39_Witness ==
  /\ SignedIn
  /\ toasts # <<>> /\ toasts[Len(toasts)].message = "Logout failed"
  /\ orders # <<>>
  /\ selectedOrderId # None
  /\ notifications # <<>>

====
